---------------------------- MODULE Spec2Model ----------------------------
(***************************************************************************)
(* Control-flow analysis of Python code (pycfa).                           *)
(*                                                                         *)
(* The module models                                                       *)
(*   - CFGraph  (pycfa/cfgraph.py): the labelled directed graph with its   *)
(*     three mutating operations add_node, remove_node and collapse_node;  *)
(*   - CFNode   (pycfa/cfnode.py): identity tokens with an optional AST    *)
(*     reference and an optional annotation;                               *)
(*   - CFAnalyser (pycfa/cfanalyser.py): the recursive AST walker that     *)
(*     builds the graph, and its three entry points.                       *)
(***************************************************************************)
EXTENDS Integers, Sequences, FiniteSets, TLC

VARIABLES
    graph,      \* CFGraph: [nodes, edges, backedges] (_nodes, _edges, _backedges)
    raised,     \* exception raised by the last call ("none" when it returned)
    call,       \* name of the last operation called ("none" initially)
    cfnodes,    \* the CFNode objects created so far: node |-> [ast_node, annotation]
    context,    \* CFAnalyser._context: sequence of [label, node], in dict order
    unit,       \* the AST handed to the analyser
    analysis,   \* the CFAnalysis returned by the last analyse_* call, or NoAnalysis
    frame       \* the next argument and the node returned of an _analyse_statements
                \* call made on its own: [next, node], or NoFrame

vars == <<graph, raised, call, cfnodes, context, unit, analysis, frame>>

-----------------------------------------------------------------------------
(* Bounds *)

\* Number of distinct hashable objects offered to the CFGraph operations.
MaxNodes == 3

NodeIds == 1..MaxNodes

\* No CFAnalysis returned, no AST handed over, no call made yet.
NoAnalysis == [kind |-> "none"]
NoUnit == [kind |-> "none"]
NoCall == "none"
NoFrame == [next |-> 0, node |-> 0]

-----------------------------------------------------------------------------
(* CFGraph *)

\* A dict with no items.
EmptyMap == [x \in {} |-> 0]

\* CFGraph.__init__
EmptyGraph == [nodes |-> {}, edges |-> EmptyMap, backedges |-> EmptyMap]

\* dict item assignment d[k] = v
SetItem(d, k, v) == IF k \in DOMAIN d THEN [d EXCEPT ![k] = v] ELSE d @@ (k :> v)

\* dict.pop(k)
PopItem(d, k) == [x \in DOMAIN d \ {k} |-> d[x]]

\* The outcome of an operation: the graph it leaves and the exception raised.
Ok(g) == [g |-> g, exc |-> "none"]
Raise(g, e) == [g |-> g, exc |-> e]

\* CFGraph.__contains__
Contains(g, node) == node \in g.nodes

\* CFGraph.edge_labels
edge_labels(g, source) == DOMAIN g.edges[source]

\* CFGraph.edge
edge(g, source, label) == g.edges[source][label]

\* CFGraph.edges_to
edges_to(g, target) == g.backedges[target]

\* CFGraph._add_node
_add_node(g, node) ==
    IF node \in g.nodes
    THEN Raise(g, "AssertionError")
    ELSE Ok([nodes |-> g.nodes \cup {node},
             edges |-> SetItem(g.edges, node, EmptyMap),
             backedges |-> SetItem(g.backedges, node, {})])

\* CFGraph._add_edge
_add_edge(g, source, label, target) ==
    IF label \in DOMAIN g.edges[source]
    THEN Raise(g, "AssertionError")
    ELSE LET WithEdge(g1) ==
                 IF target \notin DOMAIN g1.backedges
                 THEN Raise(g1, "KeyError")
                 ELSE IF <<source, label>> \in g1.backedges[target]
                 THEN Raise(g1, "AssertionError")
                 ELSE Ok([g1 EXCEPT !.backedges =
                            SetItem(g1.backedges, target,
                                    g1.backedges[target] \cup {<<source, label>>})])
         IN  WithEdge([g EXCEPT !.edges =
                          SetItem(g.edges, source, SetItem(g.edges[source], label, target))])

\* CFGraph._remove_edge, with the removal from the back-edge index left out.
_remove_edge_keeps_backedge(g, source, label) ==
    Ok([g EXCEPT !.edges = SetItem(g.edges, source, PopItem(g.edges[source], label))])

\* CFGraph._remove_edge
_remove_edge(g, source, label) ==
    LET target == g.edges[source][label]
    IN  Ok([g EXCEPT !.backedges =
                 SetItem(g.backedges, target, g.backedges[target] \ {<<source, label>>}),
               !.edges = SetItem(g.edges, source, PopItem(g.edges[source], label))])

\* The loop of CFGraph.add_node that accepts an edge from the new node to itself.
RECURSIVE add_edges_allows_self_edge(_, _, _, _)
add_edges_allows_self_edge(g, node, edges, i) ==
    IF i > Len(edges)
    THEN Ok(g)
    ELSE LET label == edges[i][1]
             target == edges[i][2]
         IN  IF ~Contains(g, target)
             THEN Raise(g, "ValueError")
             ELSE LET Added(r) == IF r.exc # "none" THEN r
                                  ELSE add_edges_allows_self_edge(r.g, node, edges, i + 1)
                  IN  Added(_add_edge(g, node, label, target))

\* The loop of CFGraph.add_node over edges.items(), from item i on.
RECURSIVE add_edges(_, _, _, _)
add_edges(g, node, edges, i) ==
    IF i > Len(edges)
    THEN Ok(g)
    ELSE LET label == edges[i][1]
             target == edges[i][2]
         IN  IF ~Contains(g, target) \/ target = node
             THEN Raise(g, "ValueError")
             ELSE LET Added(r) == IF r.exc # "none" THEN r
                                  ELSE add_edges(r.g, node, edges, i + 1)
                  IN  Added(_add_edge(g, node, label, target))

\* CFGraph.add_node; edges is the mapping as the sequence of its items.
add_node(g, node, edges) ==
    IF Contains(g, node)
    THEN Raise(g, "ValueError")
    ELSE LET Added(r) == IF r.exc # "none" THEN r ELSE add_edges(r.g, node, edges, 1)
         IN  Added(_add_node(g, node))

\* CFGraph.remove_node without the test for back edges.
remove_node_ignores_backedges(g, node) ==
    IF node \notin g.nodes THEN Raise(g, "ValueError")
    ELSE IF DOMAIN g.edges[node] # {} THEN Raise(g, "ValueError")
    ELSE Ok([g EXCEPT !.nodes = g.nodes \ {node}])

\* CFGraph.remove_node without the test for forward edges.
remove_node_ignores_forward_edges(g, node) ==
    IF node \notin g.nodes THEN Raise(g, "ValueError")
    ELSE IF g.backedges[node] # {} THEN Raise(g, "ValueError")
    ELSE Ok([g EXCEPT !.nodes = g.nodes \ {node}])

\* CFGraph.remove_node
remove_node(g, node) ==
    IF node \notin g.nodes THEN Raise(g, "ValueError")
    ELSE IF DOMAIN g.edges[node] # {} THEN Raise(g, "ValueError")
    ELSE IF g.backedges[node] # {} THEN Raise(g, "ValueError")
    ELSE Ok([g EXCEPT !.nodes = g.nodes \ {node}])

\* The loop of CFGraph.collapse_node that removes each edge to the dummy
\* node and does not add it again.
RECURSIVE move_edges_drops_edges(_, _, _)
move_edges_drops_edges(g, todo, target) ==
    IF todo = {}
    THEN Ok(g)
    ELSE LET Removed(e, r1) ==
                 IF r1.exc # "none" THEN r1
                 ELSE move_edges_drops_edges(r1.g, todo \ {e}, target)
             From(e) == Removed(e, _remove_edge(g, e[1], e[2]))
         IN  From(CHOOSE x \in todo : TRUE)

\* The loop of CFGraph.collapse_node over the copy of edges_to(dummy).
\* The iteration order of a set is unspecified; every order gives the same
\* graph, because each step touches one (source, label) pair only.
RECURSIVE move_edges(_, _, _)
move_edges(g, todo, target) ==
    IF todo = {}
    THEN Ok(g)
    ELSE LET Added(e, r2) ==
                 IF r2.exc # "none" THEN r2 ELSE move_edges(r2.g, todo \ {e}, target)
             Removed(e, r1) ==
                 Added(e, IF r1.exc # "none" THEN r1 ELSE _add_edge(r1.g, e[1], e[2], target))
             From(e) == Removed(e, _remove_edge(g, e[1], e[2]))
         IN  From(CHOOSE x \in todo : TRUE)

\* CFGraph.collapse_node without the test that the two nodes are distinct.
collapse_node_allows_identical(g, dummy, target) ==
    IF ~Contains(g, dummy) THEN Raise(g, "ValueError")
    ELSE IF ~Contains(g, target) THEN Raise(g, "ValueError")
    ELSE IF DOMAIN g.edges[dummy] # {} THEN Raise(g, "ValueError")
    ELSE LET Moved(r) == IF r.exc # "none" THEN r ELSE remove_node(r.g, dummy)
         IN  Moved(move_edges(g, edges_to(g, dummy), target))

\* CFGraph.collapse_node
collapse_node(g, dummy, target) ==
    IF ~Contains(g, dummy) THEN Raise(g, "ValueError")
    ELSE IF ~Contains(g, target) THEN Raise(g, "ValueError")
    ELSE IF DOMAIN g.edges[dummy] # {} THEN Raise(g, "ValueError")
    ELSE IF dummy = target THEN Raise(g, "ValueError")
    ELSE LET Moved(r) == IF r.exc # "none" THEN r ELSE remove_node(r.g, dummy)
         IN  Moved(move_edges(g, edges_to(g, dummy), target))

-----------------------------------------------------------------------------
(* CFNode and the graph-building methods of CFAnalyser *)

\* Edge labels (cfanalyser.py:30-39)
NEXT == "next"
ERROR == "error"
ENTER == "enter"
ELSE_ == "else_"

\* Context labels (cfanalyser.py:42-46)
_BREAK == "break_"
_CONTINUE == "continue_"
_RAISE == "raise_"
_LEAVE == "leave"
_RETURN == "return_"

\* Python's None, as the ast_node and as the annotation of a CFNode.
NoRef == <<>>
NoAnnotation == "None"

\* The state of a CFAnalyser while it runs: its graph, the CFNode objects
\* created, its context, and the exception being propagated ("none" if none).
Analyser(g, nodes, ctx) == [g |-> g, cfnodes |-> nodes, context |-> ctx, exc |-> "none"]

\* CFAnalyser.__init__
NewAnalyser == Analyser(EmptyGraph, EmptyMap, <<>>)

Failed(a) == a.exc # "none"
Throw(a, e) == [a EXCEPT !.exc = e]

\* What a method returns: the analyser state it leaves and the node returned
\* (0 when an exception propagates instead).
Result(a, node) == [a |-> a, node |-> IF Failed(a) THEN 0 ELSE node]

\* CFNode.__init__ followed by CFGraph.add_node.  Nodes are compared by
\* identity; the k-th object created is k.
new_node(a, ast_node, annotation, edges) ==
    IF Failed(a) THEN Result(a, 0)
    ELSE LET Added(node, r) ==
                 Result([a EXCEPT !.cfnodes = SetItem(@, node,
                                       [ast_node |-> ast_node, annotation |-> annotation]),
                                  !.g = r.g,
                                  !.exc = r.exc],
                        node)
             Made(node) == Added(node, add_node(a.g, node, edges))
         IN  Made(Cardinality(DOMAIN a.cfnodes) + 1)

\* CFAnalyser._annotated_node
_annotated_node(a, annotation, edges) == new_node(a, NoRef, annotation, edges)

\* CFAnalyser._ast_node
_ast_node(a, statement, edges) == new_node(a, statement, NoAnnotation, edges)

\* CFAnalyser._dummy_node
_dummy_node(a) == new_node(a, NoRef, NoAnnotation, <<>>)

\* label in context
CtxHas(ctx, label) == \E i \in 1..Len(ctx) : ctx[i].label = label

\* context[label]
CtxGet(ctx, label) == ctx[CHOOSE i \in 1..Len(ctx) : ctx[i].label = label].node

\* context[label] = node: an existing key keeps its place, a new one goes last.
CtxSet(ctx, label, node) ==
    IF CtxHas(ctx, label)
    THEN [i \in 1..Len(ctx) |->
            IF ctx[i].label = label THEN [label |-> label, node |-> node] ELSE ctx[i]]
    ELSE Append(ctx, [label |-> label, node |-> node])

\* del context[label]
CtxDel(ctx, label) == SelectSeq(ctx, LAMBDA item : item.label # label)

\* context.update(updates), from item i on.
RECURSIVE CtxUpdate(_, _, _)
CtxUpdate(ctx, updates, i) ==
    IF i > Len(updates) THEN ctx
    ELSE CtxUpdate(CtxSet(ctx, updates[i].label, updates[i].node), updates, i + 1)

\* The finally clause of CFAnalyser._updated_context that restores nothing.
CtxRestore_keeps_updates(ctx, original, updates, i) == ctx

\* The finally clause of CFAnalyser._updated_context, from item i on:
\* original is the context before the update.
RECURSIVE CtxRestore(_, _, _, _)
CtxRestore(ctx, original, updates, i) ==
    IF i > Len(updates) THEN ctx
    ELSE LET label == updates[i].label
         IN  CtxRestore(IF CtxHas(original, label)
                        THEN CtxSet(ctx, label, CtxGet(original, label))
                        ELSE CtxDel(ctx, label),
                        original, updates, i + 1)

\* CFAnalyser._updated_context: entering the with block ...
_updated_context(a, updates) ==
    IF Failed(a) THEN a ELSE [a EXCEPT !.context = CtxUpdate(@, updates, 1)]

\* ... and leaving it, normally or with an exception propagating; before is
\* the analyser state when the block was entered.
_updated_context_exit(a, before, updates) ==
    IF Failed(before) THEN a
    ELSE [a EXCEPT !.context = CtxRestore(@, before.context, updates, 1)]

Item(label, node) == [label |-> label, node |-> node]

\* CFAnalyser._raise
_raise(a) == CtxGet(a.context, _RAISE)

\* CFAnalyser._has_parents that takes the first object ever made for one
\* with parents.
_has_parents_or_first(a, node) == a.g.backedges[node] # {} \/ node = 1

\* CFAnalyser._has_parents
_has_parents(a, node) == a.g.backedges[node] # {}

\* self._ast_node(statement, **edges) where the edges name targets taken
\* from the context: the lookup of a missing label raises KeyError.
_ast_node_using(a, labels, statement, edges) ==
    IF Failed(a) THEN Result(a, 0)
    ELSE IF \E l \in labels : ~CtxHas(a.context, l) THEN Result(Throw(a, "KeyError"), 0)
    ELSE _ast_node(a, statement, edges)

-----------------------------------------------------------------------------
(* Expressions and constant folding *)

\* An expression is known by the name of its AST class and, for a literal,
\* by its value: [type, py, v] with py the Python type of the value and v
\* its text.

\* Python's bool(value)
Truth(expr) ==
    CASE expr.py = "bool" -> expr.v = "True"
      [] expr.py \in {"int", "float", "complex"} -> expr.v \notin {"0", "0.0", "0j"}
      [] expr.py \in {"str", "bytes"} -> expr.v # ""
      [] expr.py = "NoneType" -> FALSE
      [] OTHER -> TRUE

\* The AST classes for which CFAnalyser has a _getvalue_expr_ method.
ConstantTypes == {"Constant", "NameConstant", "Num", "Str", "Bytes", "Ellipsis"}

\* CFAnalyser._expression_as_constant, with bool() applied to the value.
_expression_as_constant(expr) ==
    IF expr.type \in ConstantTypes
    THEN [is_constant |-> TRUE, value |-> Truth(expr)]
    ELSE [is_constant |-> FALSE, value |-> FALSE]

\* No expression: statement.value of a bare return, handler.type of a bare except.
NoExpr == [type |-> "None", py |-> "NoneType", v |-> ""]

-----------------------------------------------------------------------------
(* The AST *)

\* A statement: its class name, its expression (the test of if, while and
\* assert, the value of return), and its statement lists.  A handler is
\* [type, body].  Statements are compared by identity: a statement is
\* referred to by its place in the tree, the sequence of [field, index]
\* steps that lead to it from the unit.
Stmt(kind, expr, body, orelse, handlers, finalbody) ==
    [kind |-> kind, expr |-> expr, body |-> body, orelse |-> orelse,
     handlers |-> handlers, finalbody |-> finalbody]

Handler(type, body) == [type |-> type, body |-> body]

Step(field, index) == [field |-> field, index |-> index]

\* The i-th statement of a statement list of the node at ref.
Child(ref, field, i) == Append(ref, Step(field, i))

-----------------------------------------------------------------------------
(* CFAnalyser: statement analysers *)

\* The outcome of a CFGraph call made by the analyser.
GraphCall(a, r) == IF Failed(a) THEN a ELSE [a EXCEPT !.g = r.g, !.exc = r.exc]

\* self._context[label], for a label tested beforehand.
Target(a, label) == IF CtxHas(a.context, label) THEN CtxGet(a.context, label) ELSE 0

RECURSIVE _analyse_statements_from(_, _, _, _, _, _)

\* CFAnalyser._analyse_statements, on the statement list `field` of the node at ref.
_analyse_statements(a, statements, ref, field, next) ==
    _analyse_statements_from(a, statements, ref, field, Len(statements), next)

\* self._ast_node(statement, next=next, error=self._raise) without the error edge.
_analyse_generic_without_error(a, statement, ref, next) ==
    _ast_node_using(a, {_RAISE}, ref, <<<<NEXT, next>>>>)

\* self._ast_node(statement, next=next, error=self._raise)
_analyse_generic(a, statement, ref, next) ==
    _ast_node_using(a, {_RAISE}, ref, <<<<NEXT, next>>, <<ERROR, Target(a, _RAISE)>>>>)

\* self._ast_node(statement, next=next)
_analyse_passthrough(a, statement, ref, next) ==
    _ast_node(a, ref, <<<<NEXT, next>>>>)

_analyse_stmt_AnnAssign(a, statement, ref, next) == _analyse_generic(a, statement, ref, next)

_analyse_stmt_Assert(a, statement, ref, next) ==
    LET Branches(test) ==
            _ast_node_using(a, IF test.is_constant /\ test.value THEN {} ELSE {_RAISE}, ref,
                IF test.is_constant
                THEN IF test.value
                     THEN <<<<NEXT, next>>>>
                     ELSE <<<<ERROR, Target(a, _RAISE)>>>>
                ELSE <<<<NEXT, next>>, <<ERROR, Target(a, _RAISE)>>>>)
    IN  Branches(_expression_as_constant(statement.expr))

_analyse_stmt_Assign(a, statement, ref, next) == _analyse_generic(a, statement, ref, next)

_analyse_stmt_AsyncFunctionDef(a, statement, ref, next) == _analyse_generic(a, statement, ref, next)

_analyse_stmt_AugAssign(a, statement, ref, next) == _analyse_generic(a, statement, ref, next)

_analyse_stmt_Break(a, statement, ref, next) ==
    _ast_node_using(a, {_BREAK}, ref, <<<<NEXT, Target(a, _BREAK)>>>>)

_analyse_stmt_ClassDef(a, statement, ref, next) == _analyse_generic(a, statement, ref, next)

_analyse_stmt_Continue(a, statement, ref, next) ==
    _ast_node_using(a, {_CONTINUE}, ref, <<<<NEXT, Target(a, _CONTINUE)>>>>)

_analyse_stmt_Delete(a, statement, ref, next) == _analyse_generic(a, statement, ref, next)

_analyse_stmt_Expr(a, statement, ref, next) == _analyse_generic(a, statement, ref, next)

_analyse_stmt_FunctionDef(a, statement, ref, next) == _analyse_generic(a, statement, ref, next)

_analyse_stmt_Global(a, statement, ref, next) == _analyse_passthrough(a, statement, ref, next)

\* _analyse_stmt_If that leaves out the branch a constant test cuts off.
_analyse_stmt_If_skips_cut_branch(a, statement, ref, next) ==
    LET Branches(test, if_branch, else_branch) ==
            _ast_node_using(else_branch.a, IF test.is_constant THEN {} ELSE {_RAISE}, ref,
                IF test.is_constant
                THEN IF test.value
                     THEN <<<<ENTER, if_branch.node>>>>
                     ELSE <<<<ELSE_, else_branch.node>>>>
                ELSE <<<<ENTER, if_branch.node>>, <<ELSE_, else_branch.node>>,
                       <<ERROR, Target(else_branch.a, _RAISE)>>>>)
        Else(test, if_branch) ==
            Branches(test, if_branch,
                     IF test.is_constant /\ test.value
                     THEN Result(if_branch.a, next)
                     ELSE _analyse_statements(if_branch.a, statement.orelse, ref, "orelse", next))
        Body(test) ==
            Else(test, IF test.is_constant /\ ~test.value
                       THEN Result(a, next)
                       ELSE _analyse_statements(a, statement.body, ref, "body", next))
    IN  Body(_expression_as_constant(statement.expr))

\* CFAnalyser._analyse_stmt_If
_analyse_stmt_If(a, statement, ref, next) ==
    LET Branches(test, if_branch, else_branch) ==
            _ast_node_using(else_branch.a, IF test.is_constant THEN {} ELSE {_RAISE}, ref,
                IF test.is_constant
                THEN IF test.value
                     THEN <<<<ENTER, if_branch.node>>>>
                     ELSE <<<<ELSE_, else_branch.node>>>>
                ELSE <<<<ENTER, if_branch.node>>, <<ELSE_, else_branch.node>>,
                       <<ERROR, Target(else_branch.a, _RAISE)>>>>)
        Else(if_branch) ==
            Branches(_expression_as_constant(statement.expr), if_branch,
                     _analyse_statements(if_branch.a, statement.orelse, ref, "orelse", next))
    IN  Else(_analyse_statements(a, statement.body, ref, "body", next))

_analyse_stmt_Import(a, statement, ref, next) == _analyse_generic(a, statement, ref, next)

_analyse_stmt_ImportFrom(a, statement, ref, next) == _analyse_generic(a, statement, ref, next)

_analyse_stmt_Nonlocal(a, statement, ref, next) == _analyse_passthrough(a, statement, ref, next)

_analyse_stmt_Pass(a, statement, ref, next) == _analyse_passthrough(a, statement, ref, next)

_analyse_stmt_Raise(a, statement, ref, next) ==
    _ast_node_using(a, {_RAISE}, ref, <<<<ERROR, Target(a, _RAISE)>>>>)

\* _analyse_stmt_Return that gives every return with a value an error edge.
_analyse_stmt_Return_always_error(a, statement, ref, next) ==
    IF statement.expr = NoExpr
    THEN _ast_node_using(a, {_LEAVE}, ref, <<<<NEXT, Target(a, _LEAVE)>>>>)
    ELSE _ast_node_using(a, {_RETURN, _RAISE}, ref,
             <<<<NEXT, Target(a, _RETURN)>>, <<ERROR, Target(a, _RAISE)>>>>)

\* CFAnalyser._analyse_stmt_Return
_analyse_stmt_Return(a, statement, ref, next) ==
    IF statement.expr = NoExpr
    THEN _ast_node_using(a, {_LEAVE}, ref, <<<<NEXT, Target(a, _LEAVE)>>>>)
    ELSE LET Nodes(value) ==
                 _ast_node_using(a, IF value.is_constant THEN {_RETURN} ELSE {_RETURN, _RAISE},
                     ref,
                     IF value.is_constant
                     THEN <<<<NEXT, Target(a, _RETURN)>>>>
                     ELSE <<<<NEXT, Target(a, _RETURN)>>, <<ERROR, Target(a, _RAISE)>>>>)
         IN  Nodes(_expression_as_constant(statement.expr))

\* _analyse_loop with the targets of break and continue exchanged.
_analyse_loop_swaps_targets(a, statement, ref, next) ==
    LET Collapse(dummy_node, loop_node) ==
            Result(GraphCall(loop_node.a,
                             collapse_node(loop_node.a.g, dummy_node.node, loop_node.node)),
                   loop_node.node)
        Loop(dummy_node, body_node, else_node) ==
            Collapse(dummy_node,
                     _ast_node_using(else_node.a, {_RAISE}, ref,
                         <<<<ENTER, body_node.node>>, <<ELSE_, else_node.node>>,
                           <<ERROR, Target(else_node.a, _RAISE)>>>>))
        Else(dummy_node, body_node, after) ==
            Loop(dummy_node, body_node,
                 _analyse_statements(after, statement.orelse, ref, "orelse", next))
        Exit(dummy_node, updates, body_node) ==
            Else(dummy_node, body_node,
                 _updated_context_exit(body_node.a, dummy_node.a, updates))
        Body(dummy_node, updates) ==
            Exit(dummy_node, updates,
                 _analyse_statements(_updated_context(dummy_node.a, updates),
                                     statement.body, ref, "body", dummy_node.node))
        Enter(dummy_node) ==
            Body(dummy_node, <<Item(_BREAK, dummy_node.node), Item(_CONTINUE, next)>>)
    IN  Enter(_dummy_node(a))

\* CFAnalyser._analyse_loop
_analyse_loop(a, statement, ref, next) ==
    LET Collapse(dummy_node, loop_node) ==
            Result(GraphCall(loop_node.a,
                             collapse_node(loop_node.a.g, dummy_node.node, loop_node.node)),
                   loop_node.node)
        Loop(dummy_node, body_node, else_node) ==
            Collapse(dummy_node,
                     _ast_node_using(else_node.a, {_RAISE}, ref,
                         <<<<ENTER, body_node.node>>, <<ELSE_, else_node.node>>,
                           <<ERROR, Target(else_node.a, _RAISE)>>>>))
        Else(dummy_node, body_node, after) ==
            Loop(dummy_node, body_node,
                 _analyse_statements(after, statement.orelse, ref, "orelse", next))
        Exit(dummy_node, updates, body_node) ==
            Else(dummy_node, body_node,
                 _updated_context_exit(body_node.a, dummy_node.a, updates))
        Body(dummy_node, updates) ==
            Exit(dummy_node, updates,
                 _analyse_statements(_updated_context(dummy_node.a, updates),
                                     statement.body, ref, "body", dummy_node.node))
        Enter(dummy_node) ==
            Body(dummy_node, <<Item(_BREAK, next), Item(_CONTINUE, dummy_node.node)>>)
    IN  Enter(_dummy_node(a))

_analyse_stmt_AsyncFor(a, statement, ref, next) == _analyse_loop(a, statement, ref, next)

_analyse_stmt_For(a, statement, ref, next) == _analyse_loop(a, statement, ref, next)

\* _analyse_stmt_While that takes no test for a constant.
_analyse_stmt_While_ignores_constant(a, statement, ref, next) ==
    LET Collapse(dummy_node, loop_node) ==
            Result(GraphCall(loop_node.a,
                             collapse_node(loop_node.a.g, dummy_node.node, loop_node.node)),
                   loop_node.node)
        Branches(test, else_node, dummy_node, body_node, after) ==
            Collapse(dummy_node,
                     _ast_node_using(after, IF test.is_constant THEN {} ELSE {_RAISE}, ref,
                         IF test.is_constant
                         THEN IF test.value
                              THEN <<<<ENTER, body_node.node>>>>
                              ELSE <<<<ELSE_, else_node.node>>>>
                         ELSE <<<<ENTER, body_node.node>>, <<ELSE_, else_node.node>>,
                                <<ERROR, Target(after, _RAISE)>>>>))
        Exit(else_node, dummy_node, updates, body_node) ==
            Branches([is_constant |-> FALSE, value |-> FALSE], else_node, dummy_node, body_node,
                     _updated_context_exit(body_node.a, dummy_node.a, updates))
        Body(else_node, dummy_node, updates) ==
            Exit(else_node, dummy_node, updates,
                 _analyse_statements(_updated_context(dummy_node.a, updates),
                                     statement.body, ref, "body", dummy_node.node))
        Enter(else_node, dummy_node) ==
            Body(else_node, dummy_node,
                 <<Item(_BREAK, next), Item(_CONTINUE, dummy_node.node)>>)
        Dummy(else_node) == Enter(else_node, _dummy_node(else_node.a))
    IN  Dummy(_analyse_statements(a, statement.orelse, ref, "orelse", next))

\* CFAnalyser._analyse_stmt_While
_analyse_stmt_While(a, statement, ref, next) ==
    LET Collapse(dummy_node, loop_node) ==
            Result(GraphCall(loop_node.a,
                             collapse_node(loop_node.a.g, dummy_node.node, loop_node.node)),
                   loop_node.node)
        Branches(test, else_node, dummy_node, body_node, after) ==
            Collapse(dummy_node,
                     _ast_node_using(after, IF test.is_constant THEN {} ELSE {_RAISE}, ref,
                         IF test.is_constant
                         THEN IF test.value
                              THEN <<<<ENTER, body_node.node>>>>
                              ELSE <<<<ELSE_, else_node.node>>>>
                         ELSE <<<<ENTER, body_node.node>>, <<ELSE_, else_node.node>>,
                                <<ERROR, Target(after, _RAISE)>>>>))
        Exit(else_node, dummy_node, updates, body_node) ==
            Branches(_expression_as_constant(statement.expr), else_node, dummy_node, body_node,
                     _updated_context_exit(body_node.a, dummy_node.a, updates))
        Body(else_node, dummy_node, updates) ==
            Exit(else_node, dummy_node, updates,
                 _analyse_statements(_updated_context(dummy_node.a, updates),
                                     statement.body, ref, "body", dummy_node.node))
        Enter(else_node, dummy_node) ==
            Body(else_node, dummy_node,
                 <<Item(_BREAK, next), Item(_CONTINUE, dummy_node.node)>>)
        Dummy(else_node) == Enter(else_node, _dummy_node(else_node.a))
    IN  Dummy(_analyse_statements(a, statement.orelse, ref, "orelse", next))

\* CFAnalyser._analyse_with
_analyse_with(a, statement, ref, next) ==
    LET With(body_node) ==
            _ast_node_using(body_node.a, {_RAISE}, ref,
                <<<<ENTER, body_node.node>>, <<ERROR, Target(body_node.a, _RAISE)>>>>)
    IN  With(_analyse_statements(a, statement.body, ref, "body", next))

_analyse_stmt_AsyncWith(a, statement, ref, next) == _analyse_with(a, statement, ref, next)

_analyse_stmt_With(a, statement, ref, next) == _analyse_with(a, statement, ref, next)

\* The loop of CFAnalyser._analyse_try_except over reversed(statement.handlers)
\* that sends a handler that does not match to the raise target at once.
RECURSIVE try_handlers_skips_later(_, _, _, _, _, _)
try_handlers_skips_later(a, statement, ref, i, next, raise_node) ==
    IF Failed(a) \/ i = 0 THEN Result(a, raise_node)
    ELSE LET Earlier(new_raise) ==
                 try_handlers_skips_later(new_raise.a, statement, ref, i - 1, next, new_raise.node)
             Match(handler, match_node) ==
                 Earlier(IF handler.type = NoExpr
                         THEN match_node
                         ELSE _ast_node_using(match_node.a, {_RAISE},
                                  Append(Child(ref, "handlers", i), Step("type", 0)),
                                  <<<<ENTER, match_node.node>>, <<ELSE_, Target(match_node.a, _RAISE)>>,
                                    <<ERROR, Target(match_node.a, _RAISE)>>>>))
             Body(handler) ==
                 Match(handler, _analyse_statements(a, handler.body,
                                                    Child(ref, "handlers", i), "body", next))
         IN  Body(statement.handlers[i])

\* The loop of CFAnalyser._analyse_try_except over reversed(statement.handlers),
\* at handler i; raise_node is the node reached when no later handler matches.
RECURSIVE try_handlers(_, _, _, _, _, _)
try_handlers(a, statement, ref, i, next, raise_node) ==
    IF Failed(a) \/ i = 0 THEN Result(a, raise_node)
    ELSE LET Earlier(new_raise) ==
                 try_handlers(new_raise.a, statement, ref, i - 1, next, new_raise.node)
             Match(handler, match_node) ==
                 Earlier(IF handler.type = NoExpr
                         THEN match_node
                         ELSE _ast_node_using(match_node.a, {_RAISE},
                                  Append(Child(ref, "handlers", i), Step("type", 0)),
                                  <<<<ENTER, match_node.node>>, <<ELSE_, raise_node>>,
                                    <<ERROR, Target(match_node.a, _RAISE)>>>>))
             Body(handler) ==
                 Match(handler, _analyse_statements(a, handler.body,
                                                    Child(ref, "handlers", i), "body", next))
         IN  Body(statement.handlers[i])

\* CFAnalyser._analyse_try_except that analyses the else clause, like the
\* body, with the handlers as raise target.
_analyse_try_except_guards_else(a, statement, ref, next) ==
    IF Failed(a) THEN Result(a, 0)
    ELSE IF ~CtxHas(a.context, _RAISE) THEN Result(Throw(a, "KeyError"), 0)
    ELSE LET Exit(else_node, updates, body_node) ==
                 _ast_node(_updated_context_exit(body_node.a, else_node.a, updates),
                           ref, <<<<NEXT, body_node.node>>>>)
             Body(else_node, updates) ==
                 Exit(else_node, updates,
                      _analyse_statements(_updated_context(else_node.a, updates),
                                          statement.body, ref, "body", else_node.node))
             Else(raise_node, else_node) ==
                 Body(else_node, <<Item(_RAISE, raise_node.node)>>)
             Guarded(raise_node, else_node) ==
                 Else(raise_node,
                      Result(_updated_context_exit(else_node.a, raise_node.a,
                                                   <<Item(_RAISE, raise_node.node)>>),
                             else_node.node))
             Handlers(raise_node) ==
                 Guarded(raise_node,
                         _analyse_statements(
                             _updated_context(raise_node.a, <<Item(_RAISE, raise_node.node)>>),
                             statement.orelse, ref, "orelse", next))
         IN  Handlers(try_handlers(a, statement, ref, Len(statement.handlers),
                                   next, _raise(a)))

\* CFAnalyser._analyse_try_except
_analyse_try_except(a, statement, ref, next) ==
    IF Failed(a) THEN Result(a, 0)
    ELSE IF ~CtxHas(a.context, _RAISE) THEN Result(Throw(a, "KeyError"), 0)
    ELSE LET Exit(else_node, updates, body_node) ==
                 _ast_node(_updated_context_exit(body_node.a, else_node.a, updates),
                           ref, <<<<NEXT, body_node.node>>>>)
             Body(else_node, updates) ==
                 Exit(else_node, updates,
                      _analyse_statements(_updated_context(else_node.a, updates),
                                          statement.body, ref, "body", else_node.node))
             Else(raise_node, else_node) ==
                 Body(else_node, <<Item(_RAISE, raise_node.node)>>)
             Handlers(raise_node) ==
                 Else(raise_node, _analyse_statements(raise_node.a, statement.orelse,
                                                      ref, "orelse", next))
         IN  Handlers(try_handlers(a, statement, ref, Len(statement.handlers),
                                   next, _raise(a)))

\* dummy_nodes of CFAnalyser._analyse_stmt_Try: a dict from end node to
\* dummy node, as the sequence of its items.
DummyHas(dummy_nodes, node) == \E i \in 1..Len(dummy_nodes) : dummy_nodes[i].end = node
\* dummy_nodes[node] that gives the dummy node of the first key for every key.
DummyGet_gives_first(dummy_nodes, node) == dummy_nodes[1].dummy

DummyGet(dummy_nodes, node) ==
    dummy_nodes[CHOOSE i \in 1..Len(dummy_nodes) : dummy_nodes[i].end = node].dummy

\* The loop of _analyse_stmt_Try over self._context.items() that leaves the
\* targets other than next as they are, and so the finally clause aside.
RECURSIVE try_dummies_keeps_targets(_, _, _, _, _, _)
try_dummies_keeps_targets(a, i, next, finally_node, dummy_nodes, target_nodes) ==
    IF Failed(a) \/ i > Len(a.context)
    THEN [a |-> a, dummy_nodes |-> dummy_nodes, target_nodes |-> target_nodes]
    ELSE LET label == a.context[i].label
             node == a.context[i].node
             fresh == node # next /\ ~DummyHas(dummy_nodes, node)
             Target_(dummy, dummies) ==
                 try_dummies_keeps_targets(dummy.a, i + 1, next, finally_node, dummies,
                             Append(target_nodes,
                                    Item(label, IF node = next THEN finally_node
                                                ELSE node)))
             Dummy(dummy) ==
                 Target_(dummy, IF fresh
                                THEN Append(dummy_nodes, [end |-> node, dummy |-> dummy.node])
                                ELSE dummy_nodes)
         IN  Dummy(IF fresh THEN _dummy_node(a) ELSE Result(a, 0))

\* The loop of _analyse_stmt_Try over self._context.items(), at item i.
RECURSIVE try_dummies(_, _, _, _, _, _)
try_dummies(a, i, next, finally_node, dummy_nodes, target_nodes) ==
    IF Failed(a) \/ i > Len(a.context)
    THEN [a |-> a, dummy_nodes |-> dummy_nodes, target_nodes |-> target_nodes]
    ELSE LET label == a.context[i].label
             node == a.context[i].node
             fresh == node # next /\ ~DummyHas(dummy_nodes, node)
             Target_(dummy, dummies) ==
                 try_dummies(dummy.a, i + 1, next, finally_node, dummies,
                             Append(target_nodes,
                                    Item(label, IF node = next THEN finally_node
                                                ELSE DummyGet(dummies, node))))
             Dummy(dummy) ==
                 Target_(dummy, IF fresh
                                THEN Append(dummy_nodes, [end |-> node, dummy |-> dummy.node])
                                ELSE dummy_nodes)
         IN  Dummy(IF fresh THEN _dummy_node(a) ELSE Result(a, 0))

\* The loop of _analyse_stmt_Try over dummy_nodes.items() that leaves the
\* dummy nodes nothing reached in the graph.
RECURSIVE try_finally_paths_keeps_dummies(_, _, _, _, _, _)
try_finally_paths_keeps_dummies(a, statement, ref, dummy_nodes, i, next) ==
    IF Failed(a) \/ i > Len(dummy_nodes) THEN a
    ELSE LET end_node == dummy_nodes[i].end
             dummy_node == dummy_nodes[i].dummy
             Collapse(path) ==
                 try_finally_paths_keeps_dummies(GraphCall(path.a, collapse_node(path.a.g, dummy_node, path.node)),
                      statement, ref, dummy_nodes, i + 1, next)
         IN  IF end_node = next \/ _has_parents(a, dummy_node)
             THEN Collapse(_analyse_statements(a, statement.finalbody,
                                               ref, "finalbody", end_node))
             ELSE try_finally_paths_keeps_dummies(a, statement, ref, dummy_nodes, i + 1, next)

\* The loop of _analyse_stmt_Try over dummy_nodes.items(), at item i.
RECURSIVE try_finally_paths(_, _, _, _, _, _)
try_finally_paths(a, statement, ref, dummy_nodes, i, next) ==
    IF Failed(a) \/ i > Len(dummy_nodes) THEN a
    ELSE LET end_node == dummy_nodes[i].end
             dummy_node == dummy_nodes[i].dummy
             Collapse(path) ==
                 try_finally_paths(GraphCall(path.a, collapse_node(path.a.g, dummy_node, path.node)),
                      statement, ref, dummy_nodes, i + 1, next)
         IN  IF end_node = next \/ _has_parents(a, dummy_node)
             THEN Collapse(_analyse_statements(a, statement.finalbody,
                                               ref, "finalbody", end_node))
             ELSE try_finally_paths(GraphCall(a, remove_node(a.g, dummy_node)),
                                    statement, ref, dummy_nodes, i + 1, next)

\* _analyse_stmt_Try that gives a target that is next a dummy node of its
\* own, and so a path through the finally clause apart from the direct one.
_analyse_stmt_Try_splits_next(a, statement, ref, next) ==
    LET Paths(dummies, entry_node) ==
            Result(try_finally_paths(
                       _updated_context_exit(entry_node.a, dummies.a, dummies.target_nodes),
                       statement, ref, dummies.dummy_nodes, 1, next),
                   entry_node.node)
        TryExcept(finally_node, dummies) ==
            Paths(dummies,
                  _analyse_try_except(_updated_context(dummies.a, dummies.target_nodes),
                                      statement, ref, finally_node.node))
        Dummies(finally_node) ==
            TryExcept(finally_node,
                      try_dummies(finally_node.a, 1, 0, finally_node.node, <<>>, <<>>))
    IN  Dummies(_analyse_statements(a, statement.finalbody, ref, "finalbody", next))

\* CFAnalyser._analyse_stmt_Try
_analyse_stmt_Try(a, statement, ref, next) ==
    LET Paths(dummies, entry_node) ==
            Result(try_finally_paths(
                       _updated_context_exit(entry_node.a, dummies.a, dummies.target_nodes),
                       statement, ref, dummies.dummy_nodes, 1, next),
                   entry_node.node)
        TryExcept(finally_node, dummies) ==
            Paths(dummies,
                  _analyse_try_except(_updated_context(dummies.a, dummies.target_nodes),
                                      statement, ref, finally_node.node))
        Dummies(finally_node) ==
            TryExcept(finally_node,
                      try_dummies(finally_node.a, 1, next, finally_node.node, <<>>, <<>>))
    IN  Dummies(_analyse_statements(a, statement.finalbody, ref, "finalbody", next))

\* The statement classes for which CFAnalyser has an _analyse_stmt_ method.
SupportedStatements ==
    {"AnnAssign", "Assert", "Assign", "AsyncFor", "AsyncFunctionDef", "AsyncWith",
     "AugAssign", "Break", "ClassDef", "Continue", "Delete", "Expr", "For",
     "FunctionDef", "Global", "If", "Import", "ImportFrom", "Nonlocal", "Pass",
     "Raise", "Return", "Try", "While", "With"}

\* The dispatch of _analyse_statements that passes over a statement of a
\* class without an _analyse_stmt_ method.
analyse_skips_unknown(a, statement, ref, next) ==
    CASE statement.kind = "AnnAssign" -> _analyse_stmt_AnnAssign(a, statement, ref, next)
      [] statement.kind = "Assert" -> _analyse_stmt_Assert(a, statement, ref, next)
      [] statement.kind = "Assign" -> _analyse_stmt_Assign(a, statement, ref, next)
      [] statement.kind = "AsyncFor" -> _analyse_stmt_AsyncFor(a, statement, ref, next)
      [] statement.kind = "AsyncFunctionDef" -> _analyse_stmt_AsyncFunctionDef(a, statement, ref, next)
      [] statement.kind = "AsyncWith" -> _analyse_stmt_AsyncWith(a, statement, ref, next)
      [] statement.kind = "AugAssign" -> _analyse_stmt_AugAssign(a, statement, ref, next)
      [] statement.kind = "Break" -> _analyse_stmt_Break(a, statement, ref, next)
      [] statement.kind = "ClassDef" -> _analyse_stmt_ClassDef(a, statement, ref, next)
      [] statement.kind = "Continue" -> _analyse_stmt_Continue(a, statement, ref, next)
      [] statement.kind = "Delete" -> _analyse_stmt_Delete(a, statement, ref, next)
      [] statement.kind = "Expr" -> _analyse_stmt_Expr(a, statement, ref, next)
      [] statement.kind = "For" -> _analyse_stmt_For(a, statement, ref, next)
      [] statement.kind = "FunctionDef" -> _analyse_stmt_FunctionDef(a, statement, ref, next)
      [] statement.kind = "Global" -> _analyse_stmt_Global(a, statement, ref, next)
      [] statement.kind = "If" -> _analyse_stmt_If(a, statement, ref, next)
      [] statement.kind = "Import" -> _analyse_stmt_Import(a, statement, ref, next)
      [] statement.kind = "ImportFrom" -> _analyse_stmt_ImportFrom(a, statement, ref, next)
      [] statement.kind = "Nonlocal" -> _analyse_stmt_Nonlocal(a, statement, ref, next)
      [] statement.kind = "Pass" -> _analyse_stmt_Pass(a, statement, ref, next)
      [] statement.kind = "Raise" -> _analyse_stmt_Raise(a, statement, ref, next)
      [] statement.kind = "Return" -> _analyse_stmt_Return(a, statement, ref, next)
      [] statement.kind = "Try" -> _analyse_stmt_Try(a, statement, ref, next)
      [] statement.kind = "While" -> _analyse_stmt_While(a, statement, ref, next)
      [] statement.kind = "With" -> _analyse_stmt_With(a, statement, ref, next)
      [] OTHER -> Result(a, next)

\* getattr(self, "_analyse_stmt_" + type(statement).__name__)(statement, next=next)
analyse(a, statement, ref, next) ==
    CASE statement.kind = "AnnAssign" -> _analyse_stmt_AnnAssign(a, statement, ref, next)
      [] statement.kind = "Assert" -> _analyse_stmt_Assert(a, statement, ref, next)
      [] statement.kind = "Assign" -> _analyse_stmt_Assign(a, statement, ref, next)
      [] statement.kind = "AsyncFor" -> _analyse_stmt_AsyncFor(a, statement, ref, next)
      [] statement.kind = "AsyncFunctionDef" -> _analyse_stmt_AsyncFunctionDef(a, statement, ref, next)
      [] statement.kind = "AsyncWith" -> _analyse_stmt_AsyncWith(a, statement, ref, next)
      [] statement.kind = "AugAssign" -> _analyse_stmt_AugAssign(a, statement, ref, next)
      [] statement.kind = "Break" -> _analyse_stmt_Break(a, statement, ref, next)
      [] statement.kind = "ClassDef" -> _analyse_stmt_ClassDef(a, statement, ref, next)
      [] statement.kind = "Continue" -> _analyse_stmt_Continue(a, statement, ref, next)
      [] statement.kind = "Delete" -> _analyse_stmt_Delete(a, statement, ref, next)
      [] statement.kind = "Expr" -> _analyse_stmt_Expr(a, statement, ref, next)
      [] statement.kind = "For" -> _analyse_stmt_For(a, statement, ref, next)
      [] statement.kind = "FunctionDef" -> _analyse_stmt_FunctionDef(a, statement, ref, next)
      [] statement.kind = "Global" -> _analyse_stmt_Global(a, statement, ref, next)
      [] statement.kind = "If" -> _analyse_stmt_If(a, statement, ref, next)
      [] statement.kind = "Import" -> _analyse_stmt_Import(a, statement, ref, next)
      [] statement.kind = "ImportFrom" -> _analyse_stmt_ImportFrom(a, statement, ref, next)
      [] statement.kind = "Nonlocal" -> _analyse_stmt_Nonlocal(a, statement, ref, next)
      [] statement.kind = "Pass" -> _analyse_stmt_Pass(a, statement, ref, next)
      [] statement.kind = "Raise" -> _analyse_stmt_Raise(a, statement, ref, next)
      [] statement.kind = "Return" -> _analyse_stmt_Return(a, statement, ref, next)
      [] statement.kind = "Try" -> _analyse_stmt_Try(a, statement, ref, next)
      [] statement.kind = "While" -> _analyse_stmt_While(a, statement, ref, next)
      [] statement.kind = "With" -> _analyse_stmt_With(a, statement, ref, next)
      [] OTHER -> Result(Throw(a, "AttributeError"), 0)

\* The loop of CFAnalyser._analyse_statements that hands every statement the
\* next node of the call instead of the node of the statement after it.
RECURSIVE _analyse_statements_from_keeps_next(_, _, _, _, _, _)
_analyse_statements_from_keeps_next(a, statements, ref, field, i, next) ==
    IF Failed(a) THEN Result(a, 0)
    ELSE IF i = 0 THEN Result(a, next)
    ELSE LET Earlier(r) ==
                 _analyse_statements_from_keeps_next(r.a, statements, ref, field, i - 1, next)
         IN  Earlier(analyse(a, statements[i], Child(ref, field, i), next))

\* The loop of CFAnalyser._analyse_statements over reversed(statements), at statement i.
_analyse_statements_from(a, statements, ref, field, i, next) ==
    IF Failed(a) THEN Result(a, 0)
    ELSE IF i = 0 THEN Result(a, next)
    ELSE LET Earlier(r) == _analyse_statements_from(r.a, statements, ref, field, i - 1, r.node)
         IN  Earlier(analyse(a, statements[i], Child(ref, field, i), next))

-----------------------------------------------------------------------------
(* CFAnalysis and the entry points of CFAnalyser *)

\* CFAnalysis(graph=self._graph, **key_nodes): the graph is the analyser's
\* own graph object; key_nodes maps "entry_node", "leave_node", "raise_node"
\* and "return_node" to nodes.
CFAnalysis(key_nodes) == [kind |-> "CFAnalysis", key_nodes |-> key_nodes]

\* Reading the attribute name of a CFAnalysis: the node, or AttributeError.
GetAttr(an, name) ==
    IF name \in DOMAIN an.key_nodes
    THEN [exc |-> "none", node |-> an.key_nodes[name]]
    ELSE [exc |-> "AttributeError", node |-> 0]

\* The same, keeping and exposing the node whether it has parents or not.
keep_or_remove_always_keeps(p, name, node) ==
    IF Failed(p.a) THEN p
    ELSE [a |-> p.a, key_nodes |-> SetItem(p.key_nodes, name, node)]

\* if self._has_parents(node): key_nodes.update(name=node)
\* else: self._graph.remove_node(node)
keep_or_remove(p, name, node) ==
    IF Failed(p.a) THEN p
    ELSE IF _has_parents(p.a, node)
    THEN [a |-> p.a, key_nodes |-> SetItem(p.key_nodes, name, node)]
    ELSE [a |-> GraphCall(p.a, remove_node(p.a.g, node)), key_nodes |-> p.key_nodes]

\* What an entry point hands back: the analyser state and the CFAnalysis
\* returned (NoAnalysis when it raised).
Returned(p) ==
    [a |-> p.a, analysis |-> IF Failed(p.a) THEN NoAnalysis ELSE CFAnalysis(p.key_nodes)]

\* CFAnalyser.analyse_function
analyse_function(a, ast_node) ==
    LET KeyNodes(leave_node, raise_node, return_node, entry_node, start) ==
            Returned(
                keep_or_remove(
                    keep_or_remove(
                        keep_or_remove(
                            [a |-> start.a,
                             key_nodes |-> SetItem(EmptyMap, "entry_node", entry_node.node)],
                            "leave_node", leave_node.node),
                        "raise_node", raise_node.node),
                    "return_node", return_node.node))
        Start(leave_node, raise_node, return_node, updates, entry_node) ==
            KeyNodes(leave_node, raise_node, return_node, entry_node,
                     _annotated_node(
                         _updated_context_exit(entry_node.a, return_node.a, updates),
                         "<start>", <<<<ENTER, entry_node.node>>>>))
        Body(leave_node, raise_node, return_node, updates) ==
            Start(leave_node, raise_node, return_node, updates,
                  _analyse_statements(_updated_context(return_node.a, updates),
                                      ast_node.body, <<>>, "body", leave_node.node))
        Return(leave_node, raise_node, return_node) ==
            Body(leave_node, raise_node, return_node,
                 <<Item(_LEAVE, leave_node.node), Item(_RAISE, raise_node.node),
                   Item(_RETURN, return_node.node)>>)
        Raise_(leave_node, raise_node) ==
            Return(leave_node, raise_node, _annotated_node(raise_node.a, "<return>", <<>>))
        Leave(leave_node) == Raise_(leave_node, _annotated_node(leave_node.a, "<raise>", <<>>))
    IN  Leave(_annotated_node(a, "<leave>", <<>>))

\* CFAnalyser.analyse_module
analyse_module(a, ast_node) ==
    LET KeyNodes(leave_node, raise_node, entry_node, start) ==
            Returned(
                keep_or_remove(
                    keep_or_remove(
                        [a |-> start.a,
                         key_nodes |-> SetItem(EmptyMap, "entry_node", entry_node.node)],
                        "leave_node", leave_node.node),
                    "raise_node", raise_node.node))
        Start(leave_node, raise_node, updates, entry_node) ==
            KeyNodes(leave_node, raise_node, entry_node,
                     _annotated_node(
                         _updated_context_exit(entry_node.a, raise_node.a, updates),
                         "<start>", <<<<ENTER, entry_node.node>>>>))
        Body(leave_node, raise_node, updates) ==
            Start(leave_node, raise_node, updates,
                  _analyse_statements(_updated_context(raise_node.a, updates),
                                      ast_node.body, <<>>, "body", leave_node.node))
        Raise_(leave_node, raise_node) ==
            Body(leave_node, raise_node, <<Item(_RAISE, raise_node.node)>>)
        Leave(leave_node) == Raise_(leave_node, _annotated_node(leave_node.a, "<raise>", <<>>))
    IN  Leave(_annotated_node(a, "<leave>", <<>>))

\* CFAnalyser.analyse_class
analyse_class(a, ast_node) ==
    LET KeyNodes(leave_node, raise_node, entry_node, start) ==
            Returned(
                keep_or_remove(
                    keep_or_remove(
                        [a |-> start.a,
                         key_nodes |-> SetItem(EmptyMap, "entry_node", entry_node.node)],
                        "leave_node", leave_node.node),
                    "raise_node", raise_node.node))
        Start(leave_node, raise_node, updates, entry_node) ==
            KeyNodes(leave_node, raise_node, entry_node,
                     _annotated_node(
                         _updated_context_exit(entry_node.a, raise_node.a, updates),
                         "<start>", <<<<ENTER, entry_node.node>>>>))
        Body(leave_node, raise_node, updates) ==
            Start(leave_node, raise_node, updates,
                  _analyse_statements(_updated_context(raise_node.a, updates),
                                      ast_node.body, <<>>, "body", leave_node.node))
        Raise_(leave_node, raise_node) ==
            Body(leave_node, raise_node, <<Item(_RAISE, raise_node.node)>>)
        Leave(leave_node) == Raise_(leave_node, _annotated_node(leave_node.a, "<raise>", <<>>))
    IN  Leave(_annotated_node(a, "<leave>", <<>>))

-----------------------------------------------------------------------------
(* The units handed to the analyser *)

\* Number of statements of a unit (those of nested definitions not counted).
MaxStmts == 3

\* The expressions that stand for the tests and values of statements: a
\* true constant, a false constant, and an expression that is no constant.
TrueConstant == [type |-> "Constant", py |-> "bool", v |-> "True"]
FalseConstant == [type |-> "Constant", py |-> "int", v |-> "0"]
Opaque == [type |-> "Call", py |-> "", v |-> ""]
Tests == {TrueConstant, FalseConstant, Opaque}

Simple(kind, expr) == Stmt(kind, expr, <<>>, <<>>, <<>>, <<>>)

\* The statements without statement lists of their own that may stand where
\* the scope says: return in a function only, break and continue in a loop
\* only.  The body of a nested function definition is not part of the unit
\* and counts for nothing in its size.
Leaves(scope) ==
    {Simple("Pass", NoExpr), Simple("Expr", Opaque), Simple("Raise", Opaque),
     Stmt("FunctionDef", NoExpr, <<Simple("Pass", NoExpr)>>, <<>>, <<>>, <<>>)}
    \cup (IF scope.function
          THEN {Simple("Return", NoExpr), Simple("Return", Opaque)}
          ELSE {})
    \cup (IF scope.loop THEN {Simple("Break", NoExpr), Simple("Continue", NoExpr)} ELSE {})

\* A scope says whether a statement stands in a function and in a loop.
Scopes ==
    <<[function |-> TRUE, loop |-> FALSE], [function |-> TRUE, loop |-> TRUE],
      [function |-> FALSE, loop |-> FALSE], [function |-> FALSE, loop |-> TRUE]>>

ScopeIndex(scope) == CHOOSE i \in 1..Len(Scopes) : Scopes[i] = scope

InLoop(scope) == [scope EXCEPT !.loop = TRUE]

\* The generated statements and statement lists are kept in a table: entry
\* k + 1 of the sequence t holds, for each scope (by its index), the
\* statements (S) and the statement lists (B) of exactly k statements in
\* all, nested ones included.
BlocksOf(t, k, scope) == t[k + 1].B[ScopeIndex(scope)]

\* The lists of handlers with n statements in all, the first handler having
\* k statements or more; only the last handler may be a bare except.
\* The union of two sets of generated items.  The first set is counted
\* before the second is added to it, so that TLC holds it in order and
\* finds the items of the second in it by bisection.
Join(A, B) == IF Cardinality(A) = 0 THEN B ELSE A \cup B

RECURSIVE HandlerLists(_, _, _, _)
HandlerLists(t, n, k, scope) ==
    IF n = 0 THEN {<<>>}
    ELSE IF k > n THEN {}
    ELSE {<<Handler(type, b)>> \o hs :
             type \in {Opaque} \cup (IF n = k THEN {NoExpr} ELSE {}),
             b \in BlocksOf(t, k, scope),
             hs \in HandlerLists(t, n - k, 1, scope)}
         \cup HandlerLists(t, n, k + 1, scope)

\* The try statements of n statements in all with a body of i statements, h
\* statements in handlers and j in the finally clause, the rest being in
\* the else clause: a try has a handler or a finally clause, and an else
\* clause only with a handler.
TryShaped(t, n, i, h, j, scope) ==
    IF i + h + j <= n - 1 /\ h + j > 0 /\ (h = 0 => i + j = n - 1)
    THEN {Stmt("Try", NoExpr, b, o, hs, f) :
             b \in BlocksOf(t, i, scope),
             hs \in HandlerLists(t, h, 1, scope),
             o \in BlocksOf(t, n - 1 - i - h - j, scope),
             f \in BlocksOf(t, j, scope)}
    ELSE {}

\* The try statements of n statements in all, by the shapes (i, h, j) from
\* the one numbered c on; the shapes are numbered i - 1 + n * h + n * n * j.
RECURSIVE TryStatements(_, _, _, _)
TryStatements(t, n, c, scope) ==
    IF c >= (n - 1) * n * n THEN {}
    ELSE Join(TryShaped(t, n, 1 + (c % (n - 1)), (c \div (n - 1)) % n, c \div ((n - 1) * n), scope),
         TryStatements(t, n, c + 1, scope))

\* The if and while statements of n statements in all with a body of
\* i statements or more.
RECURSIVE BranchStatements(_, _, _, _)
BranchStatements(t, n, i, scope) ==
    IF i > n - 1 THEN {}
    ELSE Join(Join({Stmt("If", test, b, o, <<>>, <<>>) :
             test \in Tests, b \in BlocksOf(t, i, scope),
             o \in BlocksOf(t, n - 1 - i, scope)},
          {Stmt("While", test, b, o, <<>>, <<>>) :
             test \in Tests, b \in BlocksOf(t, i, InLoop(scope)),
             o \in BlocksOf(t, n - 1 - i, scope)}),
          BranchStatements(t, n, i + 1, scope))

\* The statements of n statements in all, themselves included.
StatementsOf(t, n, scope) ==
    IF n = 1 THEN Leaves(scope)
    ELSE Join(Join(BranchStatements(t, n, 1, scope),
         {Stmt("With", Opaque, b, <<>>, <<>>, <<>>) : b \in BlocksOf(t, n - 1, scope)}),
         TryStatements(t, n, 0, scope))

\* The statement lists of n statements in all whose first statement has k
\* statements or more; s holds the statements of n statements.
RECURSIVE NewBlocks(_, _, _, _, _)
NewBlocks(t, s, n, k, scope) ==
    IF k = n THEN {<<first>> : first \in s}
    ELSE Join({<<first>> \o rest : first \in t[k + 1].S[ScopeIndex(scope)],
                              rest \in BlocksOf(t, n - k, scope)},
         NewBlocks(t, s, n, k + 1, scope))

\* Entry n + 1 of the table, given the entries before it.
Level(t, n) ==
    CHOOSE level \in
        {[S |-> s, B |-> <<NewBlocks(t, s[1], n, 1, Scopes[1]), NewBlocks(t, s[2], n, 1, Scopes[2]),
                           NewBlocks(t, s[3], n, 1, Scopes[3]), NewBlocks(t, s[4], n, 1, Scopes[4])>>] :
           s \in {<<StatementsOf(t, n, Scopes[1]), StatementsOf(t, n, Scopes[2]),
                    StatementsOf(t, n, Scopes[3]), StatementsOf(t, n, Scopes[4])>>}} : TRUE

\* The table up to n statements.
RECURSIVE Table(_)
Table(n) ==
    IF n = 0
    THEN <<[S |-> <<{}, {}, {}, {}>>, B |-> <<{<<>>}, {<<>>}, {<<>>}, {<<>>}>>]>>
    ELSE CHOOSE table \in {Append(t, Level(t, n)) : t \in {Table(n - 1)}} : TRUE

\* The units of n statements or more, up to MaxStmts: functions, modules
\* and classes.  A function has a statement at least; a module or a class
\* body may be empty.
RECURSIVE UnitsFrom(_, _)
UnitsFrom(t, n) ==
    IF n > MaxStmts THEN {}
    ELSE Join(Join(IF n = 0 THEN {}
          ELSE {[kind |-> "FunctionDef", body |-> b] : b \in BlocksOf(t, n, Scopes[1])},
          {[kind |-> k, body |-> b] :
                  k \in {"Module", "ClassDef"}, b \in BlocksOf(t, n, Scopes[3])}),
          UnitsFrom(t, n + 1))

Units == CHOOSE units \in {UnitsFrom(t, 0) : t \in {Table(MaxStmts)}} : TRUE

-----------------------------------------------------------------------------
(* The analyser at work *)

\* The CFAnalyser object as the variables hold it.
ThisAnalyser == Analyser(graph, cfnodes, context)

\* A CFAnalyser on which no method has been called: every caller in the
\* repository makes a new one for each analysis (return_checker.py:41).
Fresh == call = NoCall

Init ==
    /\ graph = EmptyGraph
    /\ raised = "none"
    /\ call = NoCall
    /\ cfnodes = EmptyMap
    /\ context = <<>>
    /\ unit \in Units
    /\ analysis = NoAnalysis
    /\ frame = NoFrame

\* The analyser state and result after a call of an entry point.
Finish(name, r) ==
    /\ graph' = r.a.g
    /\ cfnodes' = r.a.cfnodes
    /\ context' = r.a.context
    /\ raised' = r.a.exc
    /\ analysis' = r.analysis
    /\ call' = name
    /\ UNCHANGED <<unit, frame>>

AnalyseFunction ==
    /\ Fresh
    /\ unit.kind = "FunctionDef"
    /\ Finish("analyse_function", analyse_function(ThisAnalyser, unit))

AnalyseModule ==
    /\ Fresh
    /\ unit.kind = "Module"
    /\ Finish("analyse_module", analyse_module(ThisAnalyser, unit))

AnalyseClass ==
    /\ Fresh
    /\ unit.kind = "ClassDef"
    /\ Finish("analyse_class", analyse_class(ThisAnalyser, unit))

Next == AnalyseFunction \/ AnalyseModule \/ AnalyseClass

Spec == Init /\ [][Next]_vars

-----------------------------------------------------------------------------
(* Statement lists analysed by one call of _analyse_statements *)

\* Length of the statement lists handed to _analyse_statements.
MaxBlock == 2

\* The statement classes whose method is self._ast_node(statement, next=next)
\* and those whose method adds error=self._raise to it.
PassthroughKinds == {"Pass", "Global", "Nonlocal"}
GenericKinds ==
    {"AnnAssign", "Assign", "AugAssign", "AsyncFunctionDef", "ClassDef", "Delete",
     "Expr", "FunctionDef", "Import", "ImportFrom"}

\* Expressions of the AST classes with a _getvalue_expr_ method, with
\* values of every type a literal has, true and false ones ...
Constant(py, v) == [type |-> "Constant", py |-> py, v |-> v]
ConstantExprs ==
    {Constant("bool", "True"), Constant("bool", "False"), Constant("NoneType", "None"),
     Constant("int", "3"), Constant("int", "0"), Constant("float", "0.0"),
     Constant("complex", "0j"), Constant("str", "abc"), Constant("str", ""),
     Constant("bytes", "abc"), Constant("bytes", ""), Constant("ellipsis", "..."),
     [type |-> "NameConstant", py |-> "NoneType", v |-> "None"],
     [type |-> "NameConstant", py |-> "bool", v |-> "True"],
     [type |-> "Num", py |-> "int", v |-> "0"],
     [type |-> "Str", py |-> "str", v |-> "abc"],
     [type |-> "Bytes", py |-> "bytes", v |-> ""],
     [type |-> "Ellipsis", py |-> "ellipsis", v |-> "..."]}

\* ... and expressions of other classes: a call, a name, -1, (), f"".
OtherExprs ==
    {Opaque, [type |-> "Name", py |-> "", v |-> ""], [type |-> "UnaryOp", py |-> "", v |-> ""],
     [type |-> "Tuple", py |-> "", v |-> ""], [type |-> "JoinedStr", py |-> "", v |-> ""]}

Exprs == ConstantExprs \cup OtherExprs

OnePass == <<Simple("Pass", NoExpr)>>

\* The statements handed over alone: every class of statement without a
\* test, and those with a test or a value with every expression.
SingleStatements(scope) ==
    {Simple(kind, NoExpr) : kind \in PassthroughKinds \cup {"Raise", "Match"}}
    \cup {Simple(kind, Opaque) : kind \in {"AnnAssign", "Assign", "AugAssign", "Delete",
                                            "Expr", "Import", "ImportFrom", "Raise"}}
    \cup {Stmt(kind, NoExpr, OnePass, <<>>, <<>>, <<>>) :
             kind \in {"AsyncFunctionDef", "ClassDef", "FunctionDef"}}
    \cup {Simple("Assert", e) : e \in Exprs}
    \cup {Stmt(kind, e, OnePass, o, <<>>, <<>>) :
             kind \in {"If", "While"}, e \in Exprs, o \in {<<>>, OnePass}}
    \cup {Stmt(kind, e, OnePass, o, <<>>, <<>>) :
             kind \in {"For", "AsyncFor"}, e \in {Opaque, Constant("str", "")},
             o \in {<<>>, OnePass}}
    \cup {Stmt(kind, Opaque, OnePass, <<>>, <<>>, <<>>) : kind \in {"With", "AsyncWith"}}
    \cup (IF scope.function
          THEN {Simple("Return", e) : e \in Exprs \cup {NoExpr}}
          ELSE {})
    \cup (IF scope.loop THEN {Simple("Break", NoExpr), Simple("Continue", NoExpr)} ELSE {})

\* The statements that make up the longer lists.
ListStatements(scope) ==
    Leaves(scope)
    \cup {Simple("Global", NoExpr),
          Stmt("If", Opaque, OnePass, <<>>, <<>>, <<>>),
          Stmt("While", Opaque, OnePass, <<>>, <<>>, <<>>),
          Stmt("With", Opaque, OnePass, <<>>, <<>>, <<>>),
          Stmt("Try", NoExpr, OnePass, <<>>, <<Handler(Opaque, OnePass)>>, <<>>),
          Stmt("Try", NoExpr, OnePass, <<>>, <<>>, OnePass)}

\* The lists of n statements of ListStatements.
RECURSIVE ListsOf(_, _)
ListsOf(n, scope) ==
    IF n = 0 THEN {<<>>}
    ELSE {<<first>> \o rest : first \in ListStatements(scope), rest \in ListsOf(n - 1, scope)}

\* The lists of n statements or more, up to MaxBlock.
RECURSIVE ListsFrom(_, _)
ListsFrom(n, scope) ==
    IF n > MaxBlock THEN {} ELSE Join(ListsOf(n, scope), ListsFrom(n + 1, scope))

StatementLists(scope) ==
    Join({<<statement>> : statement \in SingleStatements(scope)}, ListsFrom(0, scope))

\* The analyser where analyse_function calls _analyse_statements
\* (cfanalyser.py:585-594) ...
InFunction ==
    LET Return(leave_node, raise_node, return_node) ==
            _updated_context(return_node.a,
                <<Item(_LEAVE, leave_node.node), Item(_RAISE, raise_node.node),
                  Item(_RETURN, return_node.node)>>)
        Raise_(leave_node, raise_node) ==
            Return(leave_node, raise_node, _annotated_node(raise_node.a, "<return>", <<>>))
        Leave(leave_node) == Raise_(leave_node, _annotated_node(leave_node.a, "<raise>", <<>>))
    IN  Leave(_annotated_node(NewAnalyser, "<leave>", <<>>))

\* ... where analyse_module and analyse_class do (cfanalyser.py:619-623) ...
InModule ==
    LET Raise_(leave_node, raise_node) ==
            _updated_context(raise_node.a, <<Item(_RAISE, raise_node.node)>>)
        Leave(leave_node) == Raise_(leave_node, _annotated_node(leave_node.a, "<raise>", <<>>))
    IN  Leave(_annotated_node(NewAnalyser, "<leave>", <<>>))

\* ... and where _analyse_loop and _analyse_stmt_While, called in the state a
\* with the argument next, analyse the body (cfanalyser.py:152-154).
InLoopOf(a, next) ==
    LET Enter(dummy_node) ==
            _updated_context(dummy_node.a,
                <<Item(_BREAK, next), Item(_CONTINUE, dummy_node.node)>>)
    IN  Enter(_dummy_node(a))

\* The analyser states in which a statement list is handed over, each with
\* the scope its context stands for.  Node 1 is the <leave> node.
Stages ==
    {[a |-> InFunction, scope |-> Scopes[1]], [a |-> InLoopOf(InFunction, 1), scope |-> Scopes[2]],
     [a |-> InModule, scope |-> Scopes[3]], [a |-> InLoopOf(InModule, 1), scope |-> Scopes[4]]}

\* The units of one statement at most.
ShortUnits ==
    {[kind |-> "FunctionDef", body |-> <<s>>] : s \in Leaves(Scopes[1])}
    \cup {[kind |-> k, body |-> b] :
             k \in {"Module", "ClassDef"},
             b \in {<<>>} \cup {<<s>> : s \in Leaves(Scopes[3])}}

\* A statement list, an analyser state and a next node to analyse it with;
\* or a whole unit of one statement at most and a new analyser.
InitStatements ==
    /\ raised = "none"
    /\ call = NoCall
    /\ analysis = NoAnalysis
    /\ \/ \E stage \in Stages :
             /\ graph = stage.a.g
             /\ cfnodes = stage.a.cfnodes
             /\ context = stage.a.context
             /\ unit \in {[kind |-> "statements", body |-> b] : b \in StatementLists(stage.scope)}
             /\ frame \in {[next |-> n, node |-> 0] : n \in stage.a.g.nodes}
       \/ /\ graph = EmptyGraph
          /\ cfnodes = EmptyMap
          /\ context = <<>>
          /\ unit \in ShortUnits
          /\ frame = NoFrame

\* A call of _analyse_statements(statements, next=next)
AnalyseStatements ==
    /\ Fresh
    /\ unit.kind = "statements"
    /\ LET r == _analyse_statements(ThisAnalyser, unit.body, <<>>, "body", frame.next)
       IN  /\ graph' = r.a.g
           /\ cfnodes' = r.a.cfnodes
           /\ context' = r.a.context
           /\ raised' = r.a.exc
           /\ frame' = [frame EXCEPT !.node = r.node]
           /\ call' = "_analyse_statements"
           /\ UNCHANGED <<unit, analysis>>

NextStatements == AnalyseStatements \/ AnalyseFunction \/ AnalyseModule \/ AnalyseClass

SpecStatements == InitStatements /\ [][NextStatements]_vars

-----------------------------------------------------------------------------
(* Functions of loops and try statements *)

\* Number of statements of such a function.
MaxFlow == 4

\* The statements without statement lists in them: one that completes, one
\* that may raise, the two returns, and in a loop break and continue.
FlowLeaves(scope) ==
    {Simple("Pass", NoExpr), Simple("Expr", Opaque),
     Simple("Return", NoExpr), Simple("Return", Opaque)}
    \cup (IF scope.loop THEN {Simple("Break", NoExpr), Simple("Continue", NoExpr)} ELSE {})

\* The while and for statements of n statements in all with a body of
\* i statements or more.
RECURSIVE LoopStatements(_, _, _, _)
LoopStatements(t, n, i, scope) ==
    IF i > n - 1 THEN {}
    ELSE Join({Stmt(kind, Opaque, b, o, <<>>, <<>>) :
                  kind \in {"While", "For"}, b \in BlocksOf(t, i, InLoop(scope)),
                  o \in BlocksOf(t, n - 1 - i, scope)},
              LoopStatements(t, n, i + 1, scope))

\* The statements of n statements in all: leaves, loops and try statements.
FlowStatementsOf(t, n, scope) ==
    IF n = 1 THEN FlowLeaves(scope)
    ELSE Join(LoopStatements(t, n, 1, scope), TryStatements(t, n, 0, scope))

\* Entry n + 1 of the table of these statements, for the two scopes of a
\* function.
FlowLevel(t, n) ==
    CHOOSE level \in
        {[S |-> s, B |-> <<NewBlocks(t, s[1], n, 1, Scopes[1]),
                           NewBlocks(t, s[2], n, 1, Scopes[2]), {}, {}>>] :
           s \in {<<FlowStatementsOf(t, n, Scopes[1]),
                    FlowStatementsOf(t, n, Scopes[2]), {}, {}>>}} : TRUE

RECURSIVE FlowTable(_)
FlowTable(n) ==
    IF n = 0
    THEN <<[S |-> <<{}, {}, {}, {}>>, B |-> <<{<<>>}, {<<>>}, {<<>>}, {<<>>}>>]>>
    ELSE CHOOSE table \in {Append(t, FlowLevel(t, n)) : t \in {FlowTable(n - 1)}} : TRUE

\* The functions of n statements or more, up to MaxFlow.
RECURSIVE FlowUnitsFrom(_, _)
FlowUnitsFrom(t, n) ==
    IF n > MaxFlow THEN {}
    ELSE Join({[kind |-> "FunctionDef", body |-> b] : b \in BlocksOf(t, n, Scopes[1])},
              FlowUnitsFrom(t, n + 1))

FlowUnits == CHOOSE units \in {FlowUnitsFrom(t, 1) : t \in {FlowTable(MaxFlow)}} : TRUE

InitFlow ==
    /\ graph = EmptyGraph
    /\ raised = "none"
    /\ call = NoCall
    /\ cfnodes = EmptyMap
    /\ context = <<>>
    /\ unit \in FlowUnits
    /\ analysis = NoAnalysis
    /\ frame = NoFrame

NextFlow == AnalyseFunction

SpecFlow == InitFlow /\ [][NextFlow]_vars

-----------------------------------------------------------------------------
(* Units with a statement of an unsupported class *)

\* A statement of a class CFAnalyser has no _analyse_stmt_ method for
\* (ast.Match, Python 3.10).
Unsupported == Simple("Match", NoExpr)

\* The statement lists that differ from the given one in one statement, at
\* any depth, which is Unsupported instead: in a body, an else clause, a
\* handler, a finally clause, or the body of a nested definition.
RECURSIVE WithUnsupported(_)
WithUnsupported(statements) ==
    UNION {
        LET s == statements[i]
            Put(t) == [statements EXCEPT ![i] = t]
        IN  {Put(Unsupported)}
            \cup {Put([s EXCEPT !.body = b]) : b \in WithUnsupported(s.body)}
            \cup {Put([s EXCEPT !.orelse = b]) : b \in WithUnsupported(s.orelse)}
            \cup {Put([s EXCEPT !.finalbody = b]) : b \in WithUnsupported(s.finalbody)}
            \cup UNION {{Put([s EXCEPT !.handlers[h].body = b]) :
                            b \in WithUnsupported(s.handlers[h].body)} :
                        h \in 1..Len(s.handlers)}
        : i \in 1..Len(statements)}

\* A unit with one such statement, and a new analyser.
InitUnsupported ==
    /\ graph = EmptyGraph
    /\ raised = "none"
    /\ call = NoCall
    /\ cfnodes = EmptyMap
    /\ context = <<>>
    /\ \E u \in Units : unit \in {[u EXCEPT !.body = b] : b \in WithUnsupported(u.body)}
    /\ analysis = NoAnalysis
    /\ frame = NoFrame

SpecUnsupported == InitUnsupported /\ [][Next]_vars

-----------------------------------------------------------------------------
(* Statement lists analysed in a context *)

\* Number of statements of such a list, nested ones included.
MaxScoped == 3

\* The statement lists of n statements or more, up to max, for a scope.
RECURSIVE ScopedFrom(_, _, _, _)
ScopedFrom(t, n, max, scope) ==
    IF n > max THEN {}
    ELSE Join(BlocksOf(t, n, scope), ScopedFrom(t, n + 1, max, scope))

ScopedLists(scope, max) ==
    CHOOSE lists \in {ScopedFrom(t, 0, max, scope) : t \in {Table(max)}} : TRUE

\* A statement list, or one with a statement of an unsupported class in it.
\* It is handed to _analyse_statements in a function, outside a loop and in
\* the body of one, with the <leave> node as next; or, a shorter one, to an
\* entry point of a new analyser as the body of a unit.
InitScoped ==
    /\ raised = "none"
    /\ call = NoCall
    /\ analysis = NoAnalysis
    /\ \/ \E stage \in {st \in Stages : st.scope.function} :
             /\ graph = stage.a.g
             /\ cfnodes = stage.a.cfnodes
             /\ context = stage.a.context
             /\ \E b \in ScopedLists(stage.scope, MaxScoped) :
                   unit \in {[kind |-> "statements", body |-> c] :
                                c \in {b} \cup WithUnsupported(b)}
             /\ frame = [next |-> 1, node |-> 0]
       \/ /\ graph = EmptyGraph
          /\ cfnodes = EmptyMap
          /\ context = <<>>
          /\ \E kind \in {"FunctionDef", "Module", "ClassDef"} :
                \E b \in ScopedLists(Scopes[IF kind = "FunctionDef" THEN 1 ELSE 3],
                                     MaxScoped - 1) :
                   /\ kind = "FunctionDef" => b # <<>>
                   /\ unit \in {[kind |-> kind, body |-> c] :
                                   c \in {b} \cup WithUnsupported(b)}
          /\ frame = NoFrame

SpecScoped == InitScoped /\ [][NextStatements]_vars

-----------------------------------------------------------------------------
(* An analyser used more than once *)

\* Number of calls of entry points on one CFAnalyser.
MaxCalls == 2

\* The calls of entry points that have returned: each ends by making a
\* <start> node.
Calls == Cardinality({n \in DOMAIN cfnodes : cfnodes[n].annotation = "<start>"})

\* A client may call an entry point on a CFAnalyser that has been used:
\* nothing in CFAnalyser tells a new object from a used one.  The calls are
\* on the same tree.
CallFunction ==
    /\ Calls < MaxCalls /\ raised = "none"
    /\ unit.kind = "FunctionDef"
    /\ Finish("analyse_function", analyse_function(ThisAnalyser, unit))

CallModule ==
    /\ Calls < MaxCalls /\ raised = "none"
    /\ unit.kind = "Module"
    /\ Finish("analyse_module", analyse_module(ThisAnalyser, unit))

CallClass ==
    /\ Calls < MaxCalls /\ raised = "none"
    /\ unit.kind = "ClassDef"
    /\ Finish("analyse_class", analyse_class(ThisAnalyser, unit))

NextReuse == CallFunction \/ CallModule \/ CallClass

SpecReuse == Init /\ [][NextReuse]_vars

-----------------------------------------------------------------------------
(* Calls on a CFGraph offered by a client *)

\* Mappings offered as the edges argument of add_node: the items in
\* insertion order, with distinct labels (cfanalyser.py:30,33).  CFGraph
\* uses a label as a dict key and nothing else, so a one-item mapping has
\* the label "next" and a
\* two-item mapping lists "next" before "error": the other mappings are
\* the same up to the names of the labels.
EdgeMappings ==
    {<<>>}
    \cup {<<<<"next", t>>>> : t \in NodeIds}
    \cup {<<<<"next", t1>>, <<"error", t2>>>> : <<t1, t2>> \in NodeIds \X NodeIds}

\* add_node looks at its edges argument only when the node is new
\* (cfgraph.py:86), so one mapping stands for all when it is not.
EdgeMappingsFor(node) == IF Contains(graph, node) THEN {<<>>} ELSE EdgeMappings

InitGraph ==
    /\ graph = EmptyGraph
    /\ raised = "none"
    /\ call = NoCall
    /\ cfnodes = EmptyMap
    /\ context = <<>>
    /\ unit = NoUnit
    /\ analysis = NoAnalysis
    /\ frame = NoFrame

AddNode ==
    \E node \in NodeIds : \E edges \in EdgeMappingsFor(node) :
        LET r == add_node(graph, node, edges)
        IN  /\ graph' = r.g
            /\ raised' = r.exc
            /\ call' = "add_node"
            /\ UNCHANGED <<cfnodes, context, unit, analysis, frame>>

RemoveNode ==
    \E node \in NodeIds :
        LET r == remove_node(graph, node)
        IN  /\ graph' = r.g
            /\ raised' = r.exc
            /\ call' = "remove_node"
            /\ UNCHANGED <<cfnodes, context, unit, analysis, frame>>

CollapseNode ==
    \E dummy \in NodeIds, target \in NodeIds :
        LET r == collapse_node(graph, dummy, target)
        IN  /\ graph' = r.g
            /\ raised' = r.exc
            /\ call' = "collapse_node"
            /\ UNCHANGED <<cfnodes, context, unit, analysis, frame>>

NextGraph == AddNode \/ RemoveNode \/ CollapseNode

SpecGraph == InitGraph /\ [][NextGraph]_vars

-----------------------------------------------------------------------------
(* Properties of the CFGraph *)

\* C1: the back-edge index is the exact inverse of the forward-edge index:
\* (s, l) is in edges_to(t) if and only if edge(s, l) = t.
BackedgesInverse ==
    /\ \A s \in DOMAIN graph.edges : \A l \in DOMAIN graph.edges[s] :
          /\ graph.edges[s][l] \in DOMAIN graph.backedges
          /\ <<s, l>> \in graph.backedges[graph.edges[s][l]]
    /\ \A t \in DOMAIN graph.backedges : \A e \in graph.backedges[t] :
          /\ e[1] \in DOMAIN graph.edges
          /\ e[2] \in DOMAIN graph.edges[e[1]]
          /\ graph.edges[e[1]][e[2]] = t

\* The forward edges of the graph g, as (source, label, target) triples.
ForwardEdges(g) ==
    UNION {{<<s, l, g.edges[s][l]>> : l \in DOMAIN g.edges[s]} : s \in DOMAIN g.edges}

\* Some edge of g starts or ends at node.
Touched(g, node) == \E e \in ForwardEdges(g) : e[1] = node \/ e[3] = node

\* Witness of C1: a collapse has turned an edge into a self-loop, and the
\* graph holds an entry for a node that is no longer a member.
SelfLoopAfterCollapse ==
    /\ call = "collapse_node" /\ raised = "none"
    /\ \E e \in ForwardEdges(graph) : e[1] = e[3]
    /\ DOMAIN graph.backedges # graph.nodes

\* C2: every target of every forward edge of a node in the graph is itself
\* a member of the graph's node set.
EdgeTargetsInGraph ==
    \A n \in graph.nodes : \A l \in DOMAIN graph.edges[n] :
        graph.edges[n][l] \in graph.nodes

\* Witness of C2: an add_node call has failed half way, leaving the new node
\* in the graph with its first edge.
PartialAddNode ==
    /\ call = "add_node" /\ raised = "ValueError"
    /\ \E n \in graph.nodes : DOMAIN graph.edges[n] = {"next"}

\* C7: a successful collapse_node(dummy, target) rewrites every edge to dummy
\* into an edge to target, removes dummy from the node set, leaves every
\* other node and edge as it was, and makes edges_to(target) the union of
\* its previous value and the previous edges_to(dummy).
CollapseRewritesEdges ==
    \A dummy \in NodeIds, target \in NodeIds :
        LET r == collapse_node(graph, dummy, target)
        IN  r.exc = "none" =>
              /\ r.g.nodes = graph.nodes \ {dummy}
              /\ \A s \in graph.nodes \ {dummy} :
                    /\ DOMAIN r.g.edges[s] = DOMAIN graph.edges[s]
                    /\ \A l \in DOMAIN graph.edges[s] :
                          r.g.edges[s][l] =
                             IF graph.edges[s][l] = dummy THEN target
                             ELSE graph.edges[s][l]
              /\ r.g.backedges[target] =
                    graph.backedges[target] \cup graph.backedges[dummy]
              /\ \A n \in graph.nodes \ {dummy, target} :
                    r.g.backedges[n] = graph.backedges[n]

\* Witness of C7: a state in which a collapse succeeds that rewrites an edge
\* from the target itself (it becomes a self-loop) and leaves another edge alone.
CollapseMakesSelfLoop ==
    \E dummy \in graph.nodes, target \in graph.nodes :
        /\ collapse_node(graph, dummy, target).exc = "none"
        /\ \E l \in DOMAIN graph.edges[target] : graph.edges[target][l] = dummy
        /\ \E e \in ForwardEdges(graph) : e[3] # dummy

\* C8: collapse_node(dummy, target) fails when dummy has an outgoing edge,
\* when dummy or target is not in the graph, or when dummy = target, and
\* then the graph is unchanged.
CollapseRejects ==
    \A dummy \in NodeIds, target \in NodeIds :
        LET r == collapse_node(graph, dummy, target)
            bad == \/ dummy \notin graph.nodes
                   \/ target \notin graph.nodes
                   \/ dummy = target
                   \/ \E e \in ForwardEdges(graph) : e[1] = dummy
        IN  bad => r.exc = "ValueError" /\ r.g = graph

\* Witness of C8: a collapse_node call has failed on a graph with an edge.
CollapseFailed ==
    /\ call = "collapse_node" /\ raised = "ValueError"
    /\ ForwardEdges(graph) # {}

\* C9: add_node(n, edges) fails if n is already in the graph, if a target
\* is not in the graph or if a target is n; otherwise it inserts n with one
\* forward edge and the matching back-edge per (label, target) pair.
AddNodeContract ==
    \A n \in NodeIds, edges \in EdgeMappings :
        LET r == add_node(graph, n, edges)
            bad == \/ n \in graph.nodes
                   \/ \E i \in 1..Len(edges) :
                         edges[i][2] \notin graph.nodes \/ edges[i][2] = n
        IN  /\ bad => r.exc = "ValueError"
            /\ ~bad =>
                 /\ r.exc = "none"
                 /\ r.g.nodes = graph.nodes \cup {n}
                 /\ DOMAIN r.g.edges[n] = {edges[i][1] : i \in 1..Len(edges)}
                 /\ \A i \in 1..Len(edges) :
                       /\ r.g.edges[n][edges[i][1]] = edges[i][2]
                       /\ <<n, edges[i][1]>> \in r.g.backedges[edges[i][2]]
                 /\ \A e \in ForwardEdges(r.g) : e[1] # n => e \in ForwardEdges(graph)

\* Witness of C9: add_node has inserted a node with two edges.
AddedNodeWithEdges ==
    /\ call = "add_node" /\ raised = "none"
    /\ \E n \in graph.nodes : DOMAIN graph.edges[n] = {"next", "error"}

\* C10: remove_node(n) removes n when n is in the graph and isolated; it
\* fails when n is absent or an edge touches n, and then membership and
\* edges are unchanged: no node is removed while an edge touches it.
RemoveNodeContract ==
    \A n \in NodeIds :
        LET r == remove_node(graph, n)
        IN  IF n \in graph.nodes /\ ~Touched(graph, n)
            THEN /\ r.exc = "none"
                 /\ r.g.nodes = graph.nodes \ {n}
                 /\ ForwardEdges(r.g) = ForwardEdges(graph)
            ELSE /\ r.exc = "ValueError"
                 /\ r.g = graph

\* Witness of C10: a remove_node call has failed on a node of the graph.
RemoveFailed ==
    /\ call = "remove_node" /\ raised = "ValueError"
    /\ \E n \in graph.nodes : Touched(graph, n)


\* The targets of the forward edges of source in the graph g.
Successors(g, source) == {g.edges[source][l] : l \in DOMAIN g.edges[source]}

\* The nodes of seen with the nodes of g that directed paths from the nodes
\* of frontier lead to.
RECURSIVE Descendants(_, _, _)
Descendants(g, frontier, seen) ==
    IF frontier = {} THEN seen
    ELSE LET Found(found) == Descendants(g, found \ seen, seen \cup found)
         IN  Found(UNION {Successors(g, s) : s \in frontier})

\* The graph g has no directed cycle (a self-loop is a cycle of one edge).
Acyclic(g) ==
    \A n \in DOMAIN g.edges :
        n \notin Descendants(g, Successors(g, n), Successors(g, n))

\* C11: the empty graph has no cycle, and no add_node or remove_node call,
\* successful or not, takes a graph without a directed cycle (self-loops
\* included) to a graph with one: only collapse_node closes a cycle.
OnlyCollapseClosesCycle ==
    [][(call' # "collapse_node" /\ Acyclic(graph)) => Acyclic(graph')]_vars

\* Witness of C11: add_node has added a node with edges to a graph that has
\* a path of two edges and no cycle, and no cycle came of it.
AddedToAcyclicPath ==
    /\ call = "add_node" /\ raised = "none"
    /\ Acyclic(graph)
    /\ \E e \in ForwardEdges(graph), f \in ForwardEdges(graph) : e[3] = f[1]


-----------------------------------------------------------------------------
(* Properties of the analyser *)

\* An analyse_* call has returned a CFAnalysis.
Analysed == call # NoCall /\ analysis # NoAnalysis

\* The statements the analyser walks in a statement list and below it: those
\* of bodies, else clauses, handlers and finally clauses, but not those of
\* nested function and class definitions.
RECURSIVE WalkedStatements(_, _, _)
WalkedStatements(statements, ref, field) ==
    UNION {LET s == statements[i]
               r == Child(ref, field, i)
           IN  {r} \cup
               (IF s.kind \in {"FunctionDef", "AsyncFunctionDef", "ClassDef"}
                THEN {}
                ELSE WalkedStatements(s.body, r, "body")
                     \cup WalkedStatements(s.orelse, r, "orelse")
                     \cup WalkedStatements(s.finalbody, r, "finalbody")
                     \cup UNION {WalkedStatements(s.handlers[h].body,
                                                  Child(r, "handlers", h), "body") :
                                 h \in 1..Len(s.handlers)})
           : i \in 1..Len(statements)}

\* The nodes of the final graph whose ast_node is the statement at ref.
NodesOf(ref) == {n \in graph.nodes : cfnodes[n].ast_node = ref}

\* The sources of the edges of the final graph into node, read off the
\* forward edges.
Predecessors(node) ==
    {s \in graph.nodes : \E l \in DOMAIN graph.edges[s] : graph.edges[s][l] = node}

\* The nodes on directed paths of the final graph from the nodes of
\* frontier, with those of seen.
RECURSIVE ReachableFrom(_, _)
ReachableFrom(frontier, seen) ==
    IF frontier = {} THEN seen
    ELSE LET found == UNION {{graph.edges[s][l] : l \in DOMAIN graph.edges[s]} :
                             s \in frontier}
         IN  ReachableFrom(found \ seen, seen \cup found)

\* The nodes reachable from entry_node, itself included.
Reachable == ReachableFrom({analysis.key_nodes["entry_node"]}, {analysis.key_nodes["entry_node"]})

\* The attributes of a CFAnalysis for the terminal nodes, and the annotation
\* of the node each stands for.
TerminalNames == {"leave_node", "raise_node", "return_node"}
TerminalAnnotation(name) ==
    CASE name = "leave_node" -> "<leave>"
      [] name = "raise_node" -> "<raise>"
      [] name = "return_node" -> "<return>"

\* The nodes the analyser made for the terminal name (one at most).
TerminalNodes(name) ==
    {n \in DOMAIN cfnodes : cfnodes[n].annotation = TerminalAnnotation(name)}

\* The analysis exposes the terminal name.
Exposed(name) == GetAttr(analysis, name).exc = "none"

\* C3: every statement the analyser walks in the analysed unit, reachable
\* or not, has at least one node in the graph of the returned analysis whose
\* ast_node is that statement.
AllStatementsCovered ==
    Analysed => \A ref \in WalkedStatements(unit.body, <<>>, "body") : NodesOf(ref) # {}

\* A function whose second statement follows a return has been analysed, and
\* the node of that statement has no predecessor.
DeadStatementCovered ==
    /\ Analysed
    /\ Len(unit.body) >= 2
    /\ unit.body[1].kind = "Return"
    /\ \E n \in NodesOf(<<Step("body", 2)>>) : Predecessors(n) = {}

ExposedTerminalsReachable ==
    Analysed => \A name \in TerminalNames :
                   Exposed(name) => GetAttr(analysis, name).node \in Reachable

KeptTerminals == UNION {TerminalNodes(name) \cap graph.nodes : name \in TerminalNames}

-----------------------------------------------------------------------------
(* Properties of the statement analysers *)

\* An _analyse_statements call made on its own has returned.
StatementsAnalysed == call = "_analyse_statements" /\ raised = "none"

\* The place in the tree of statement i of the list handed over.
StatementRef(i) == <<Step("body", i)>>

\* The node of statement i of the list handed over (there is one exactly).
NodeOf(i) == CHOOSE n \in NodesOf(StatementRef(i)) : TRUE

\* The edges of node in the final graph, as a function from labels to targets.
EdgesOf(node) == graph.edges[node]

\* The statement classes with no effect on control flow but a possible error.
PlainKinds == PassthroughKinds \cup GenericKinds

\* What C12 says of the state a call leaves.
StatementsChainedState ==
    /\ StatementsAnalysed =>
          /\ \A i \in 1..Len(unit.body) : Cardinality(NodesOf(StatementRef(i))) = 1
          /\ frame.node = IF unit.body = <<>> THEN frame.next ELSE NodeOf(1)
          /\ \A i \in 1..Len(unit.body) :
                unit.body[i].kind \in PlainKinds =>
                   /\ NEXT \in DOMAIN EdgesOf(NodeOf(i))
                   /\ EdgesOf(NodeOf(i))[NEXT] =
                         IF i < Len(unit.body) THEN NodeOf(i + 1) ELSE frame.next
    /\ (Analysed /\ call = "analyse_module" /\ unit.body = <<>>) =>
          /\ Exposed("leave_node")
          /\ GetAttr(analysis, "entry_node").node = GetAttr(analysis, "leave_node").node

\* C12: _analyse_statements on s1..sk with next N returns the node of s1;
\* the next edge of every si that is a statement without effect on control
\* flow goes to the node of s(i+1), that of sk to N; on an empty list it
\* returns N and leaves the graph and its nodes as they were; the
\* entry_node of an empty module is its leave_node.
StatementsChained ==
    [][/\ StatementsChainedState'
       /\ (StatementsAnalysed' /\ unit.body = <<>>) => (graph' = graph /\ cfnodes' = cfnodes)]_vars

\* Witness of C12: a list of an expression statement and a loop has been
\* analysed with a next node other than the <leave> node.
ChainedIntoLoop ==
    /\ StatementsAnalysed
    /\ Len(unit.body) = 2
    /\ unit.body[1].kind = "Expr" /\ unit.body[2].kind = "While"
    /\ frame.next # 1
    /\ EdgesOf(NodeOf(1))[NEXT] = NodeOf(2)
    /\ frame.node = NodeOf(1)

\* The node statement i of the list handed over was analysed with as next.
NextOf(i) == IF i < Len(unit.body) THEN NodeOf(i + 1) ELSE frame.next

\* The mappings from edge labels to targets of one and of two items.
OneEdge(label, target) == [l \in {label} |-> target]
TwoEdges(label1, target1, label2, target2) ==
    [l \in {label1, label2} |-> IF l = label1 THEN target1 ELSE target2]

\* C13: the node of a simple statement analysed with next N and raise
\* target R refers to the statement and has exactly the edges {next: N}
\* for pass, global and nonlocal, {next: N, error: R} for assignments,
\* delete, expression statements, imports and function and class
\* definitions, {error: R} for raise, and {next: leave target} for a return
\* without a value.
SimpleStatementEdges ==
    StatementsAnalysed =>
        \A i \in 1..Len(unit.body) :
            LET kind == unit.body[i].kind
                R == CtxGet(context, _RAISE)
            IN  /\ kind \in PlainKinds \cup {"Raise", "Return"} =>
                      /\ NodesOf(StatementRef(i)) = {NodeOf(i)}
                      /\ cfnodes[NodeOf(i)].annotation = NoAnnotation
                /\ kind \in PassthroughKinds => EdgesOf(NodeOf(i)) = OneEdge(NEXT, NextOf(i))
                /\ kind \in GenericKinds =>
                      EdgesOf(NodeOf(i)) = TwoEdges(NEXT, NextOf(i), ERROR, R)
                /\ kind = "Raise" => EdgesOf(NodeOf(i)) = OneEdge(ERROR, R)
                /\ (kind = "Return" /\ unit.body[i].expr = NoExpr) =>
                      EdgesOf(NodeOf(i)) = OneEdge(NEXT, CtxGet(context, _LEAVE))

\* Witness of C13: a function definition followed by a raise has been
\* analysed in a loop with the <raise> node as next.
DefinitionThenRaise ==
    /\ StatementsAnalysed
    /\ Len(unit.body) = 2
    /\ unit.body[1].kind = "FunctionDef" /\ unit.body[2].kind = "Raise"
    /\ CtxHas(context, _CONTINUE)
    /\ frame.next = CtxGet(context, _RAISE)
    /\ EdgesOf(NodeOf(1)) = TwoEdges(NEXT, NodeOf(2), ERROR, frame.next)
    /\ EdgesOf(NodeOf(2)) = OneEdge(ERROR, frame.next)

ReturnOfLiteralCanRaise ==
    StatementsAnalysed =>
        \A i \in 1..Len(unit.body) :
            (/\ unit.body[i].kind = "Return"
             /\ unit.body[i].expr \in {Constant("NoneType", "None"), Constant("str", "abc"),
                                       Constant("int", "3")}) =>
                EdgesOf(NodeOf(i)) =
                    TwoEdges(NEXT, CtxGet(context, _RETURN), ERROR, CtxGet(context, _RAISE))

\* The mapping from edge labels to targets with the items given.
EdgeMap(items) ==
    [l \in {items[k][1] : k \in 1..Len(items)} |->
        items[CHOOSE k \in 1..Len(items) : items[k][1] = l][2]]

\* The node of the statement at ref.
NodeAt(ref) == CHOOSE n \in NodesOf(ref) : TRUE

\* The constants Python takes for false: False, None, zero, and the empty
\* string and bytes.
Falsy(expr) == expr.v \in {"False", "None", "0", "0.0", "0j", ""}

\* C16: an if or a while whose test is a recognised constant has the enter
\* edge alone when the constant is true and the else edge alone when it is
\* false, an assert the next edge alone or the error edge to the raise
\* target alone; with any other test if and while have exactly enter, else
\* and error, and assert next and error; a for loop has enter, else and
\* error always.
ConstantTestEdges ==
    StatementsAnalysed =>
        \A i \in 1..Len(unit.body) :
            LET statement == unit.body[i]
                test == statement.expr
                R == CtxGet(context, _RAISE)
                body_node == NodeAt(Child(StatementRef(i), "body", 1))
                else_node == IF statement.orelse = <<>> THEN NextOf(i)
                             ELSE NodeAt(Child(StatementRef(i), "orelse", 1))
                all == EdgeMap(<<<<ENTER, body_node>>, <<ELSE_, else_node>>, <<ERROR, R>>>>)
            IN  /\ statement.kind \in {"If", "While"} =>
                      EdgesOf(NodeOf(i)) =
                          IF test \notin ConstantExprs THEN all
                          ELSE IF Falsy(test) THEN OneEdge(ELSE_, else_node)
                          ELSE OneEdge(ENTER, body_node)
                /\ statement.kind = "Assert" =>
                      EdgesOf(NodeOf(i)) =
                          IF test \notin ConstantExprs THEN TwoEdges(NEXT, NextOf(i), ERROR, R)
                          ELSE IF Falsy(test) THEN OneEdge(ERROR, R)
                          ELSE OneEdge(NEXT, NextOf(i))
                /\ statement.kind \in {"For", "AsyncFor"} => EdgesOf(NodeOf(i)) = all

\* Witness of C16: a while loop with an else clause whose test is the empty
\* string has been analysed, and its node has the else edge alone.
WhileOnFalseConstant ==
    /\ StatementsAnalysed
    /\ unit.body = <<Stmt("While", Constant("str", ""), OnePass, OnePass, <<>>, <<>>)>>
    /\ DOMAIN EdgesOf(NodeOf(1)) = {ELSE_}
    /\ NodesOf(Child(StatementRef(1), "body", 1)) # {}

-----------------------------------------------------------------------------
(* Properties of loops and try statements *)

\* What follows a statement list when it completes, as Python runs it: the
\* statement at ref, the finally clause of the try statement at ref, the end
\* of the function, or (in a finally clause, which is left as it was
\* entered) nothing that the place in the tree tells.
ToStatement(ref) == [to |-> "statement", ref |-> ref]
ToFinally(ref) == [to |-> "finally", ref |-> ref]
ToLeave == [to |-> "leave", ref |-> <<>>]
ToUnknown == [to |-> "unknown", ref |-> <<>>]

\* What an exception raised by a statement reaches first: the first handler
\* of the try statement at ref, its finally clause, or the end of the
\* function.
ToHandler(ref) == [to |-> "handler", ref |-> ref]
ToRaise == [to |-> "raise", ref |-> <<>>]

\* The statements of a statement list and below it, each with its place
\* (ref), with what follows it when it completes (next), with the place of
\* the innermost loop around it (loop, <<>> if none), with whether a try
\* statement with a finally clause stands between it and that loop or the
\* function (routed), with whether it is in a finally clause (copied), and
\* with what an exception it raises reaches first (catch).
RECURSIVE Walk(_, _, _, _, _, _, _, _)
Walk(statements, ref, field, next, loop, routed, copied, catch) ==
    UNION {
        LET s == statements[i]
            r == Child(ref, field, i)
            after == IF i < Len(statements) THEN ToStatement(Child(ref, field, i + 1)) ELSE next
            final == IF s.finalbody = <<>> THEN after ELSE ToFinally(r)
            guarded == routed \/ s.finalbody # <<>>
            out == IF s.finalbody = <<>> THEN catch ELSE ToFinally(r)
        IN  {[ref |-> r, statement |-> s, next |-> after, loop |-> loop,
              routed |-> routed, copied |-> copied, catch |-> catch, out |-> out]}
            \cup (CASE s.kind \in {"While", "For"} ->
                         Walk(s.body, r, "body", ToStatement(r), r, FALSE, copied, catch)
                         \cup Walk(s.orelse, r, "orelse", after, loop, routed, copied, catch)
                    [] s.kind = "Try" ->
                         Walk(s.body, r, "body",
                              IF s.orelse = <<>> THEN final
                              ELSE ToStatement(Child(r, "orelse", 1)),
                              loop, guarded, copied,
                              IF s.handlers = <<>> THEN out ELSE ToHandler(r))
                         \cup Walk(s.orelse, r, "orelse", final, loop, guarded, copied, out)
                         \cup Walk(s.finalbody, r, "finalbody", ToUnknown, loop, routed, TRUE,
                                   catch)
                         \cup UNION {Walk(s.handlers[h].body, Child(r, "handlers", h), "body",
                                          final, loop, guarded, copied, out) :
                                     h \in 1..Len(s.handlers)}
                    [] OTHER -> {})
        : i \in 1..Len(statements)}

\* The statements of the analysed function.
Walked == Walk(unit.body, <<>>, "body", ToLeave, <<>>, FALSE, FALSE, ToRaise)

\* The smallest number of a set of numbers.
Min(S) == CHOOSE n \in S : \A m \in S : n <= m

\* The node that stands for what follows: the node of the statement, the
\* first node made for the first statement of the finally clause (the
\* analyser makes the copy that goes on to next first, cfanalyser.py:492),
\* or the <leave> node.
NodeFor(next) ==
    CASE next.to = "statement" -> NodeAt(next.ref)
      [] next.to = "finally" -> Min(NodesOf(Child(next.ref, "finalbody", 1)))
      [] next.to = "leave" -> Min(TerminalNodes("leave_node"))

\* The statement w is the last of the statement list field of the statement v.
LastOf(w, v, field) ==
    /\ Len(w.ref) = Len(v.ref) + 1
    /\ SubSeq(w.ref, 1, Len(v.ref)) = v.ref
    /\ w.ref[Len(w.ref)] = Step(field, Len(v.statement[field]))

\* C17: in the graph of an analysed function, for every loop (not in a
\* finally clause) with node L and next N: the last statement of the body,
\* if a plain statement, has its next edge to L; every continue of the loop
\* not routed through a finally clause has its single edge, next, to L;
\* every such break has it to N; the else clause completes to N (the else
\* edge of the loop if the clause is empty, the next edge of its last plain
\* statement if not).  The loop of a break or continue is the innermost
\* one around it.  In a finally clause, which is copied, every continue of
\* a loop in the clause goes to a copy of that loop.
LoopEdges ==
    Analysed =>
        \A v \in Walked :
            v.statement.kind \in {"While", "For"} =>
                /\ ~v.copied =>
                      /\ Cardinality(NodesOf(v.ref)) = 1
                      /\ \A w \in Walked :
                            /\ (/\ LastOf(w, v, "body")
                                /\ w.statement.kind \in {"Pass", "Expr"}) =>
                                  EdgesOf(NodeAt(w.ref))[NEXT] = NodeAt(v.ref)
                            /\ (/\ w.loop = v.ref /\ ~w.routed
                                /\ w.statement.kind = "Continue") =>
                                  \A n \in NodesOf(w.ref) :
                                      EdgesOf(n) = OneEdge(NEXT, NodeAt(v.ref))
                            /\ (/\ w.loop = v.ref /\ ~w.routed
                                /\ w.statement.kind = "Break") =>
                                  \A n \in NodesOf(w.ref) :
                                      EdgesOf(n) = OneEdge(NEXT, NodeFor(v.next))
                            /\ (/\ LastOf(w, v, "orelse")
                                /\ w.statement.kind \in {"Pass", "Expr"}) =>
                                  EdgesOf(NodeAt(w.ref))[NEXT] = NodeFor(v.next)
                      /\ v.statement.orelse = <<>> =>
                            EdgesOf(NodeAt(v.ref))[ELSE_] = NodeFor(v.next)
                /\ v.copied =>
                      \A w \in Walked :
                          (w.loop = v.ref /\ ~w.routed /\ w.statement.kind = "Continue") =>
                              \A n \in NodesOf(w.ref) :
                                  /\ DOMAIN EdgesOf(n) = {NEXT}
                                  /\ EdgesOf(n)[NEXT] \in NodesOf(v.ref)

\* Witness of C17: a loop in the body of a loop has been analysed; the
\* inner loop has a break, which goes to the node of the outer loop, and
\* that node is not where the outer loop goes on to.
InnerBreakAnalysed ==
    /\ Analysed
    /\ \E v \in Walked, w \in Walked, b \in Walked :
          /\ v.statement.kind = "While" /\ w.statement.kind = "For"
          /\ LastOf(w, v, "body")
          /\ b.statement.kind = "Break" /\ b.loop = w.ref
          /\ EdgesOf(NodeAt(b.ref))[NEXT] = NodeAt(v.ref)
          /\ NodeFor(v.next) # NodeAt(v.ref)

\* The sequence p begins the sequence r.
IsPrefix(p, r) == Len(p) <= Len(r) /\ SubSeq(r, 1, Len(p)) = p

\* The node stands for a statement (or a handler's type) in the body of the
\* loop at ref.
InBodyOf(node, ref) ==
    LET place == cfnodes[node].ast_node
    IN  /\ Len(place) > Len(ref)
        /\ IsPrefix(ref, place)
        /\ place[Len(ref) + 1].field = "body"

\* The breaks and continues of the analysed function that stand in a loop.
Jumps == {w \in Walked : w.statement.kind \in {"Break", "Continue"} /\ w.loop # <<>>}

\* C18 as stated: the single edge of a break node, next, goes to a node
\* outside the body of the innermost loop around the break, that of a
\* continue node to a node in the body of that loop or to the loop node.
BreakTargetsOutsideLoop ==
    Analysed =>
        \A w \in Jumps : \A n \in NodesOf(w.ref) :
            /\ DOMAIN EdgesOf(n) = {NEXT}
            /\ IF w.statement.kind = "Break"
               THEN ~InBodyOf(EdgesOf(n)[NEXT], w.loop)
               ELSE InBodyOf(EdgesOf(n)[NEXT], w.loop) \/ EdgesOf(n)[NEXT] \in NodesOf(w.loop)

\* The try statements with a finally clause around the statement w and
\* inside its loop whose finally clause runs when w leaves them: w is in
\* their body, handlers or else clause.
RoutingTries(w) ==
    {u \in Walked :
        /\ u.statement.kind = "Try" /\ u.statement.finalbody # <<>>
        /\ Len(u.ref) > Len(w.loop) /\ Len(u.ref) < Len(w.ref)
        /\ IsPrefix(u.ref, w.ref)
        /\ w.ref[Len(u.ref) + 1].field # "finalbody"}

\* The innermost of them.
RoutingTry(w) == CHOOSE u \in RoutingTries(w) : \A x \in RoutingTries(w) : Len(x.ref) <= Len(u.ref)

\* C18 as amended: the single edge of a break or continue node is next.  If
\* a try statement with a finally clause stands between the statement and
\* its loop, the edge goes to a node of the first statement of the finally
\* clause of the innermost such try, which is in the body of the loop.  If
\* none does, the edge of a break goes to a node outside the body of the
\* loop, and the edge of a continue to the loop node.
JumpTargets ==
    Analysed =>
        \A w \in Jumps : \A n \in NodesOf(w.ref) :
            /\ DOMAIN EdgesOf(n) = {NEXT}
            /\ w.routed <=> RoutingTries(w) # {}
            /\ IF w.routed
               THEN /\ EdgesOf(n)[NEXT] \in
                          NodesOf(Child(RoutingTry(w).ref, "finalbody", 1))
                    /\ InBodyOf(EdgesOf(n)[NEXT], w.loop)
               ELSE IF w.statement.kind = "Break"
               THEN ~InBodyOf(EdgesOf(n)[NEXT], w.loop)
               ELSE EdgesOf(n)[NEXT] \in NodesOf(w.loop)

\* Witness of C18: a break in a try statement with a finally clause in a
\* loop has been analysed; its edge goes to the finally clause, in the body
\* of the loop, and the clause goes on to a node outside the body.
BreakThroughFinally ==
    /\ Analysed
    /\ \E w \in Jumps : \E n \in NodesOf(w.ref) :
          /\ w.statement.kind = "Break" /\ w.routed
          /\ InBodyOf(EdgesOf(n)[NEXT], w.loop)
          /\ \E l \in DOMAIN EdgesOf(EdgesOf(n)[NEXT]) :
                ~InBodyOf(EdgesOf(EdgesOf(n)[NEXT])[l], w.loop)

\* The place of the type expression of handler h of the try statement at ref.
TypeRef(ref, h) == Append(Child(ref, "handlers", h), Step("type", 0))

\* The nodes that handler h of the try statement v is entered by: those of
\* its type expression, or, for a bare except, those of the first statement
\* of its body.
HandlerNodes(v, h) ==
    IF v.statement.handlers[h].type = NoExpr
    THEN NodesOf(Child(Child(v.ref, "handlers", h), "body", 1))
    ELSE NodesOf(TypeRef(v.ref, h))

\* The nodes that stand for what an exception reaches first.  A finally
\* clause has a node for each of its copies.
CatchNodes(catch) ==
    CASE catch.to = "handler" ->
             HandlerNodes(CHOOSE v \in Walked : v.ref = catch.ref, 1)
      [] catch.to = "finally" -> NodesOf(Child(catch.ref, "finalbody", 1))
      [] catch.to = "raise" -> TerminalNodes("raise_node")

\* The statement w is statement i of the statement list field of the statement v.
ChildOf(w, v, field) ==
    /\ Len(w.ref) = Len(v.ref) + 1
    /\ IsPrefix(v.ref, w.ref)
    /\ w.ref[Len(w.ref)].field = field

\* C19: for a try statement with handlers, in the graph of the analysed
\* function: the try node has the single edge next to the node of the first
\* body statement; the error edge of a statement of the body goes to the
\* first handler; a handler with a type has a node for the type with
\* exactly the edges enter to the first statement of the handler's body,
\* else to the next handler (for the last handler, to where an exception
\* leaving the try-except goes: the handler or finally clause around it or
\* the <raise> node) and error to where such an exception goes; a bare
\* except has no node of its own and is entered at the first statement of
\* its body; the last statement of the body, if a plain statement, goes on
\* to the else clause (to what follows the try-except if there is none).
TryExceptEdges ==
    Analysed =>
        \A v \in Walked :
            (v.statement.kind = "Try" /\ v.statement.handlers # <<>>) =>
                /\ NodesOf(v.ref) # {}
                /\ ~v.copied => Cardinality(NodesOf(v.ref)) = 1
                /\ \A n \in NodesOf(v.ref) :
                      /\ DOMAIN EdgesOf(n) = {NEXT}
                      /\ EdgesOf(n)[NEXT] \in NodesOf(Child(v.ref, "body", 1))
                /\ \A w \in Walked : \A n \in NodesOf(w.ref) :
                      /\ (ChildOf(w, v, "body") /\ ERROR \in DOMAIN EdgesOf(n)) =>
                            EdgesOf(n)[ERROR] \in HandlerNodes(v, 1)
                      /\ (/\ LastOf(w, v, "body")
                          /\ w.statement.kind \in {"Pass", "Expr"}) =>
                            EdgesOf(n)[NEXT] \in
                                IF v.statement.orelse # <<>>
                                THEN NodesOf(Child(v.ref, "orelse", 1))
                                ELSE IF v.statement.finalbody # <<>>
                                THEN NodesOf(Child(v.ref, "finalbody", 1))
                                ELSE IF v.copied THEN graph.nodes
                                ELSE {NodeFor(v.next)}
                /\ \A h \in 1..Len(v.statement.handlers) :
                      IF v.statement.handlers[h].type = NoExpr
                      THEN NodesOf(TypeRef(v.ref, h)) = {}
                      ELSE /\ NodesOf(TypeRef(v.ref, h)) # {}
                           /\ \A n \in NodesOf(TypeRef(v.ref, h)) :
                                 /\ DOMAIN EdgesOf(n) = {ENTER, ELSE_, ERROR}
                                 /\ EdgesOf(n)[ENTER] \in
                                       NodesOf(Child(Child(v.ref, "handlers", h), "body", 1))
                                 /\ EdgesOf(n)[ELSE_] \in
                                       IF h < Len(v.statement.handlers)
                                       THEN HandlerNodes(v, h + 1)
                                       ELSE CatchNodes(v.out)
                                 /\ EdgesOf(n)[ERROR] \in CatchNodes(v.out)

\* Witness of C19: a try statement with a handler with a type and a bare
\* except after it, in no other try statement, has been analysed; a
\* statement of the body has an error edge to the node of the type, whose
\* else edge goes to the body of the bare except and whose error edge goes
\* to the <raise> node.
TwoHandlersAnalysed ==
    /\ Analysed
    /\ \E v \in Walked : \E w \in Walked :
          /\ v.statement.kind = "Try" /\ Len(v.statement.handlers) = 2
          /\ v.statement.handlers[2].type = NoExpr
          /\ v.out = ToRaise
          /\ ChildOf(w, v, "body")
          /\ ERROR \in DOMAIN EdgesOf(NodeAt(w.ref))
          /\ EdgesOf(NodeAt(w.ref))[ERROR] = NodeAt(TypeRef(v.ref, 1))
          /\ EdgesOf(NodeAt(TypeRef(v.ref, 1)))[ELSE_] =
                NodeAt(Child(Child(v.ref, "handlers", 2), "body", 1))
          /\ EdgesOf(NodeAt(TypeRef(v.ref, 1)))[ERROR] \in TerminalNodes("raise_node")

\* The <return> node, a copy of the finally clause of the try statement at
\* ref that goes on to onward, and the target of a label the context lacks.
ToReturn == [to |-> "return", ref |-> <<>>]
ToCopy(ref, onward) == [to |-> "copy", ref |-> ref, onward |-> onward]
ToNothing == [to |-> "nothing", ref |-> <<>>]

\* Where the labels lead in the body of a function, as Python runs it.
FunctionTargets ==
    [label \in {_LEAVE, _RAISE, _RETURN, _BREAK, _CONTINUE} |->
        CASE label = _LEAVE -> ToLeave
          [] label = _RAISE -> ToRaise
          [] label = _RETURN -> ToReturn
          [] OTHER -> ToNothing]

\* Where the labels lead in the body, handlers and else clause of the try
\* statement at ref with a finally clause, followed by next: the finally
\* clause runs first and then goes on to where the label led before.
ThroughFinally(targets, ref, next) ==
    [label \in DOMAIN targets |->
        IF targets[label] = ToNothing THEN ToNothing
        ELSE IF targets[label] = next THEN ToFinally(ref)
        ELSE ToCopy(ref, targets[label])]

\* Where control may go from the statements of a statement list and below
\* it, each statement taken to be reached, as Python runs them: on
\* completion, by an exception, and by return, break and continue.  A test
\* that is a constant cannot raise and takes one branch only.
\* ReachedInTry is that of the body, handlers and else clause of a try
\* statement, final being what follows them.
RECURSIVE Reached(_, _, _, _, _)
RECURSIVE ReachedInTry(_, _, _, _)
Reached(statements, ref, field, next, targets) ==
    UNION {
        LET s == statements[i]
            r == Child(ref, field, i)
            after == IF i < Len(statements) THEN ToStatement(Child(ref, field, i + 1)) ELSE next
            Copies(reached) ==
                UNION {Reached(s.finalbody, r, "finalbody", t.onward, targets) :
                       t \in {x \in reached : x.to = "copy" /\ x.ref = r}}
        IN  CASE s.kind = "Pass" -> {after}
              [] s.kind \in {"Expr", "FunctionDef"} -> {after, targets[_RAISE]}
              [] s.kind = "Raise" -> {targets[_RAISE]}
              [] s.kind = "Return" ->
                     IF s.expr = NoExpr THEN {targets[_LEAVE]}
                     ELSE {targets[_RETURN], targets[_RAISE]}
              [] s.kind = "Break" -> {targets[_BREAK]}
              [] s.kind = "Continue" -> {targets[_CONTINUE]}
              [] s.kind = "If" ->
                     (IF s.expr \in ConstantExprs THEN {} ELSE {targets[_RAISE]})
                     \cup (IF s.orelse = <<>> /\ (s.expr \in ConstantExprs => Falsy(s.expr))
                           THEN {after} ELSE {})
                     \cup Reached(s.body, r, "body", after, targets)
                     \cup Reached(s.orelse, r, "orelse", after, targets)
              [] s.kind = "With" ->
                     {targets[_RAISE]} \cup Reached(s.body, r, "body", after, targets)
              [] s.kind \in {"While", "For"} ->
                     (IF s.expr \in ConstantExprs THEN {} ELSE {targets[_RAISE]})
                     \cup (IF s.orelse = <<>> /\ (s.expr \in ConstantExprs => Falsy(s.expr))
                           THEN {after} ELSE {})
                     \cup Reached(s.body, r, "body", ToStatement(r),
                                  [targets EXCEPT ![_BREAK] = after,
                                                  ![_CONTINUE] = ToStatement(r)])
                     \cup Reached(s.orelse, r, "orelse", after, targets)
              [] s.kind = "Try" ->
                     IF s.finalbody = <<>> THEN ReachedInTry(s, r, after, targets)
                     ELSE Reached(s.finalbody, r, "finalbody", after, targets)
                          \cup Copies(ReachedInTry(s, r, ToFinally(r),
                                                   ThroughFinally(targets, r, after)))
        : i \in 1..Len(statements)}
ReachedInTry(s, r, final, targets) ==
    Reached(s.body, r, "body",
            IF s.orelse = <<>> THEN final ELSE ToStatement(Child(r, "orelse", 1)),
            IF s.handlers = <<>> THEN targets
            ELSE [targets EXCEPT ![_RAISE] = ToHandler(r)])
    \cup Reached(s.orelse, r, "orelse", final, targets)
    \cup UNION {Reached(s.handlers[h].body, Child(r, "handlers", h), "body", final, targets) :
                h \in 1..Len(s.handlers)}
    \cup (IF \E h \in 1..Len(s.handlers) : s.handlers[h].type # NoExpr
          THEN {targets[_RAISE]} ELSE {})

\* The try statements with a finally clause of a statement list and below
\* it, those in finally clauses aside, each with its place (ref), with what
\* follows it (next), with where else control may go from its body,
\* handlers and else clause, after the finally clause (onward), with whether
\* control may go from them to what follows it (direct), and with where the
\* labels lead around it (targets).
RECURSIVE WithFinally(_, _, _, _, _)
WithFinally(statements, ref, field, next, targets) ==
    UNION {
        LET s == statements[i]
            r == Child(ref, field, i)
            after == IF i < Len(statements) THEN ToStatement(Child(ref, field, i + 1)) ELSE next
            final == IF s.finalbody = <<>> THEN after ELSE ToFinally(r)
            inner == IF s.finalbody = <<>> THEN targets ELSE ThroughFinally(targets, r, after)
            Try(reached) ==
                [ref |-> r, statement |-> s, next |-> after,
                 onward |-> {t.onward : t \in {x \in reached : x.to = "copy" /\ x.ref = r}},
                 direct |-> final \in reached, targets |-> targets]
        IN  CASE s.kind \in {"If", "With"} ->
                     WithFinally(s.body, r, "body", after, targets)
                     \cup WithFinally(s.orelse, r, "orelse", after, targets)
              [] s.kind \in {"While", "For"} ->
                     WithFinally(s.body, r, "body", ToStatement(r),
                                 [targets EXCEPT ![_BREAK] = after,
                                                 ![_CONTINUE] = ToStatement(r)])
                     \cup WithFinally(s.orelse, r, "orelse", after, targets)
              [] s.kind = "Try" ->
                     (IF s.finalbody = <<>> THEN {}
                      ELSE {Try(ReachedInTry(s, r, final, inner))})
                     \cup WithFinally(s.body, r, "body",
                                      IF s.orelse = <<>> THEN final
                                      ELSE ToStatement(Child(r, "orelse", 1)),
                                      IF s.handlers = <<>> THEN inner
                                      ELSE [inner EXCEPT ![_RAISE] = ToHandler(r)])
                     \cup WithFinally(s.orelse, r, "orelse", final, inner)
                     \cup UNION {WithFinally(s.handlers[h].body, Child(r, "handlers", h),
                                             "body", final, inner) :
                                 h \in 1..Len(s.handlers)}
              [] OTHER -> {}
        : i \in 1..Len(statements)}

\* Those of the analysed function.
TriesWithFinally == WithFinally(unit.body, <<>>, "body", ToLeave, FunctionTargets)

\* The nodes that may stand for a target.  Of the copies of a finally
\* clause the first made is the one that goes on to what follows the try
\* statement.
TargetNodes(target) ==
    CASE target.to = "statement" -> NodesOf(target.ref)
      [] target.to = "finally" -> {Min(NodesOf(Child(target.ref, "finalbody", 1)))}
      [] target.to = "copy" ->
             NodesOf(Child(target.ref, "finalbody", 1))
                 \ {Min(NodesOf(Child(target.ref, "finalbody", 1)))}
      [] target.to = "handler" ->
             HandlerNodes(CHOOSE v \in Walked : v.ref = target.ref, 1)
      [] target.to = "leave" -> TerminalNodes("leave_node")
      [] target.to = "return" -> TerminalNodes("return_node")
      [] target.to = "raise" -> TerminalNodes("raise_node")

\* The node stands for a statement (or a handler's type) of the body, the
\* handlers or the else clause of the try statement at ref.
InTryPart(node, ref) ==
    LET place == cfnodes[node].ast_node
    IN  /\ Len(place) > Len(ref)
        /\ IsPrefix(ref, place)
        /\ place[Len(ref) + 1].field # "finalbody"

\* C20: in the graph of an analysed function, for every try statement with
\* a finally clause (not in a finally clause itself) followed by N: the
\* clause has one copy that goes on to N and one more for each other
\* target that control may go to from the body, handlers and else clause,
\* and no other; every copy but the one that goes on to N has an edge from
\* a node of the body, handlers or else clause; if the last statement of
\* the clause is a plain one, its next edges show where the copies go on
\* to: to N from the first made, to each of the other targets from one of
\* the others, and to no node from two copies.  No dummy node is left.
FinallyCopies ==
    Analysed =>
        /\ \A n \in graph.nodes :
              cfnodes[n].ast_node # NoRef \/ cfnodes[n].annotation # NoAnnotation
        /\ \A v \in TriesWithFinally :
              LET copies == NodesOf(Child(v.ref, "finalbody", 1))
                  last == NodesOf(Child(v.ref, "finalbody", Len(v.statement.finalbody)))
                  plain == v.statement.finalbody[Len(v.statement.finalbody)].kind
                               \in {"Pass", "Expr"}
              IN  /\ v.next \notin v.onward
                  /\ Cardinality(copies) = 1 + Cardinality(v.onward)
                  /\ \A c \in copies \ {Min(copies)} :
                        \E n \in graph.nodes :
                            /\ InTryPart(n, v.ref)
                            /\ \E l \in DOMAIN EdgesOf(n) : EdgesOf(n)[l] = c
                  /\ plain =>
                        /\ Cardinality(last) = Cardinality(copies)
                        /\ Cardinality({EdgesOf(n)[NEXT] : n \in last}) = Cardinality(copies)
                        /\ EdgesOf(Min(last))[NEXT] \in TargetNodes(v.next)
                        /\ \A t \in v.onward :
                              \E n \in last \ {Min(last)} :
                                  EdgesOf(n)[NEXT] \in TargetNodes(t)

\* Witness of C20: a try statement followed by a statement has been
\* analysed whose body returns and cannot raise; its finally clause has two
\* copies, the one that goes on to the statement, which no edge enters, and
\* the one that goes on to the <leave> node, which the return enters.
UnreachedFinallyCopy ==
    /\ Analysed
    /\ \E v \in TriesWithFinally :
          LET copies == NodesOf(Child(v.ref, "finalbody", 1))
          IN  /\ v.next.to = "statement"
              /\ v.onward = {ToLeave}
              /\ Cardinality(copies) = 2
              /\ \A n \in graph.nodes : \A l \in DOMAIN EdgesOf(n) :
                    EdgesOf(n)[l] # Min(copies)
              /\ \E n \in NodesOf(Child(v.ref, "body", 1)) :
                    EdgesOf(n) = OneEdge(NEXT, CHOOSE c \in copies : c # Min(copies))
              /\ v.statement.finalbody = <<Simple("Pass", NoExpr)>>
              /\ EdgesOf(CHOOSE c \in copies : c # Min(copies))[NEXT]
                    \in TerminalNodes("leave_node")

\* Where the labels lead in the body of the analysed unit: a module or a
\* class body has no return.
UnitTargets ==
    IF unit.kind = "FunctionDef" THEN FunctionTargets
    ELSE [FunctionTargets EXCEPT ![_LEAVE] = ToNothing, ![_RETURN] = ToNothing]

\* The try statements with a finally clause of the analysed unit.
UnitTries == WithFinally(unit.body, <<>>, "body", ToLeave, UnitTargets)

\* Control leaves the body, handlers and else clause of the try statement v
\* by an exception that goes past it and in no other way.
RaiseOnly(v) == ~v.direct /\ v.onward = {v.targets[_RAISE]}

\* The node stands for a statement of the finally clause of the try
\* statement at ref.
InFinally(node, ref) ==
    LET place == cfnodes[node].ast_node
    IN  /\ Len(place) > Len(ref)
        /\ IsPrefix(ref, place)
        /\ place[Len(ref) + 1].field = "finalbody"

InFinallyOf(place, ref) ==
    /\ Len(place) > Len(ref)
    /\ IsPrefix(ref, place)
    /\ place[Len(ref) + 1].field = "finalbody"

\* The break, continue and return statements w of the finally clause of the
\* try statement v that leave it for a target of the context around v: no
\* try statement with a finally clause of its own stands between v and w,
\* and the loop of a break or continue is around v.
Overrides(v) ==
    {w \in Walked :
        /\ w.statement.kind \in {"Break", "Continue", "Return"}
        /\ InFinallyOf(w.ref, v.ref)
        /\ ~\E u \in Walked :
              /\ u.statement.kind = "Try" /\ u.statement.finalbody # <<>>
              /\ Len(u.ref) > Len(v.ref) /\ Len(u.ref) < Len(w.ref)
              /\ IsPrefix(u.ref, w.ref)
        /\ w.statement.kind \in {"Break", "Continue"} =>
              (w.loop # <<>> /\ Len(w.loop) < Len(v.ref))}

\* The label whose target a break, continue or return goes to.
LabelOf(statement) ==
    CASE statement.kind = "Break" -> _BREAK
      [] statement.kind = "Continue" -> _CONTINUE
      [] statement.kind = "Return" -> IF statement.expr = NoExpr THEN _LEAVE ELSE _RETURN

\* C22: in the graph of an analysed function, for every try statement v
\* with a finally clause (not in a finally clause itself) and every break,
\* continue or return of the clause that leaves it: in every copy of the
\* clause, whatever entered the copy, the statement has its next edge to
\* the target the context around v has for it (through the finally clause
\* of a try statement around v, if any), the same node in all copies; a
\* break, a continue and a return without a value have no other edge, a
\* return with a value has an error edge besides, to the first handler of
\* the try statement of the clause in whose body it stands, if any, and
\* else to the raise target of the context around v.
FinallyOverrides ==
    Analysed =>
        \A v \in TriesWithFinally : \A w \in Overrides(v) :
            /\ Cardinality(NodesOf(w.ref)) >= 1 + Cardinality(v.onward)
            /\ Cardinality({EdgesOf(n)[NEXT] : n \in NodesOf(w.ref)}) = 1
            /\ \A n \in NodesOf(w.ref) :
                  /\ EdgesOf(n)[NEXT] \in TargetNodes(v.targets[LabelOf(w.statement)])
                  /\ DOMAIN EdgesOf(n) =
                        IF w.statement.kind = "Return" /\ w.statement.expr # NoExpr
                        THEN {NEXT, ERROR} ELSE {NEXT}
                  /\ ERROR \in DOMAIN EdgesOf(n) =>
                        EdgesOf(n)[ERROR] \in
                            IF w.catch.to = "handler" /\ InFinallyOf(w.catch.ref, v.ref)
                            THEN CatchNodes(w.catch)
                            ELSE TargetNodes(v.targets[_RAISE])

\* Witness of C22: a try statement in a loop has been analysed whose body
\* returns and whose finally clause is a continue; the clause has two
\* copies, one entered by the return, and the continue of both goes to the
\* loop node and not to <leave>.
ContinueOverridesReturn ==
    /\ Analysed
    /\ \E v \in TriesWithFinally : \E w \in Overrides(v) :
          /\ w.statement.kind = "Continue"
          /\ v.onward = {ToLeave}
          /\ v.statement.finalbody = <<Simple("Continue", NoExpr)>>
          /\ Cardinality(NodesOf(w.ref)) = 2
          /\ \E r \in NodesOf(Child(v.ref, "body", 1)) :
                /\ cfnodes[r].ast_node \in {x.ref : x \in {y \in Walked : y.statement.kind = "Return"}}
                /\ EdgesOf(r)[NEXT] \in NodesOf(w.ref)
                /\ EdgesOf(EdgesOf(r)[NEXT])[NEXT] = NodeAt(w.loop)
                /\ EdgesOf(EdgesOf(r)[NEXT])[NEXT] \notin TerminalNodes("leave_node")

\* The try statements with a finally clause around the statement at ref
\* whose finally clause runs when control leaves them from there.
FinallyAround(ref) ==
    {u \in TriesWithFinally :
        /\ Len(u.ref) < Len(ref)
        /\ IsPrefix(u.ref, ref)
        /\ ref[Len(u.ref) + 1].field # "finalbody"}

\* The statement w stands in the body, handlers or else clause of the try
\* statement v, and v is the innermost try statement with a finally clause
\* around it.
LeavesThrough(w, v) ==
    /\ ~w.copied
    /\ v \in FinallyAround(w.ref)
    /\ \A u \in FinallyAround(w.ref) : Len(u.ref) <= Len(v.ref)

\* The node reached from node by k next edges.
RECURSIVE Follow(_, _)
Follow(node, k) == IF k = 0 THEN node ELSE Follow(EdgesOf(node)[NEXT], k - 1)

\* The edge label of the node goes to a copy of the finally clause of v, a
\* list of plain statements, and that copy goes on to the target.
ThroughCopy(node, label, v, target) ==
    /\ label \in DOMAIN EdgesOf(node)
    /\ EdgesOf(node)[label] \in NodesOf(Child(v.ref, "finalbody", 1))
    /\ Follow(EdgesOf(node)[label], Len(v.statement.finalbody)) \in TargetNodes(target)

\* C23: in the graph of an analysed function, for every try statement v
\* with a finally clause of plain statements (v not in a finally clause)
\* and every statement of its body, handlers and else clause that leaves v:
\* the edge by which it leaves enters a copy of the finally clause, and
\* that copy, on completion, goes on to where the edge would go without v:
\* completion to what follows v, an exception no handler of v catches to
\* the raise target around v, a return without a value to the leave
\* target, one with a value to the return target, a break to the break
\* target of its loop, a continue to the loop node.  The error edge of a
\* handler's type does as an exception does, and the else edge of the last
\* handler's type too.  The error edge of a statement of the finally
\* clause goes to the raise target around v, in every copy.
ExitsThroughFinally ==
    Analysed =>
        \A v \in TriesWithFinally :
            (\A i \in 1..Len(v.statement.finalbody) :
                 v.statement.finalbody[i].kind \in {"Pass", "Expr"}) =>
                /\ \A w \in Walked : \A n \in NodesOf(w.ref) :
                      LeavesThrough(w, v) =>
                          LET kind == w.statement.kind
                              completes == w.next = ToFinally(v.ref)
                              raises == w.catch = ToFinally(v.ref)
                              outside == w.loop = <<>> \/ Len(w.loop) < Len(v.ref)
                          IN  /\ (kind \in {"Pass", "Expr"} /\ completes) =>
                                    ThroughCopy(n, NEXT, v, v.next)
                              /\ (kind \in {"While", "For"} /\ completes
                                  /\ w.statement.orelse = <<>>) =>
                                    ThroughCopy(n, ELSE_, v, v.next)
                              /\ (kind \in {"Expr", "While", "For"} /\ raises) =>
                                    ThroughCopy(n, ERROR, v, v.targets[_RAISE])
                              /\ (kind = "Return" /\ w.statement.expr = NoExpr) =>
                                    ThroughCopy(n, NEXT, v, v.targets[_LEAVE])
                              /\ (kind = "Return" /\ w.statement.expr # NoExpr) =>
                                    /\ ThroughCopy(n, NEXT, v, v.targets[_RETURN])
                                    /\ raises => ThroughCopy(n, ERROR, v, v.targets[_RAISE])
                              /\ (kind = "Break" /\ outside) =>
                                    ThroughCopy(n, NEXT, v, v.targets[_BREAK])
                              /\ (kind = "Continue" /\ outside) =>
                                    ThroughCopy(n, NEXT, v, v.targets[_CONTINUE])
                /\ \A h \in 1..Len(v.statement.handlers) :
                      \A n \in NodesOf(TypeRef(v.ref, h)) :
                          /\ ThroughCopy(n, ERROR, v, v.targets[_RAISE])
                          /\ h = Len(v.statement.handlers) =>
                                ThroughCopy(n, ELSE_, v, v.targets[_RAISE])
                /\ \A i \in 1..Len(v.statement.finalbody) :
                      \A n \in NodesOf(Child(v.ref, "finalbody", i)) :
                          v.statement.finalbody[i].kind = "Expr" =>
                              EdgesOf(n)[ERROR] \in TargetNodes(v.targets[_RAISE])

\* Witness of C23: a try statement followed by a statement has been
\* analysed whose body is a return with a value; the next edge of the
\* return enters a copy of the finally clause that goes on to <return>, its
\* error edge another that goes on to <raise>, and neither is the copy that
\* goes on to the statement.
ReturnAndRaiseThroughFinally ==
    /\ Analysed
    /\ \E v \in TriesWithFinally : \E w \in Walked :
          /\ LeavesThrough(w, v)
          /\ v.next.to = "statement"
          /\ w.statement = Simple("Return", Opaque)
          /\ v.statement.finalbody = <<Simple("Pass", NoExpr)>>
          /\ Cardinality(NodesOf(Child(v.ref, "finalbody", 1))) = 3
          /\ EdgesOf(EdgesOf(NodeAt(w.ref))[NEXT])[NEXT] \in TerminalNodes("return_node")
          /\ EdgesOf(EdgesOf(NodeAt(w.ref))[ERROR])[NEXT] \in TerminalNodes("raise_node")
          /\ EdgesOf(Min(NodesOf(Child(v.ref, "finalbody", 1))))[NEXT] = NodeFor(v.next)

-----------------------------------------------------------------------------
(* Properties of the entry points *)

\* The statement list has, where the analyser walks, a statement of a class
\* outside the supported ones.
RECURSIVE HasUnsupported(_)
HasUnsupported(statements) ==
    \E i \in 1..Len(statements) :
        LET s == statements[i]
        IN  \/ s.kind \notin SupportedStatements
            \/ /\ s.kind \notin {"FunctionDef", "AsyncFunctionDef", "ClassDef"}
               /\ \/ HasUnsupported(s.body)
                  \/ HasUnsupported(s.orelse)
                  \/ HasUnsupported(s.finalbody)
                  \/ \E h \in 1..Len(s.handlers) : HasUnsupported(s.handlers[h].body)

\* C24: a call of an entry point on a unit with a statement of an
\* unsupported class where the analyser walks, reachable or not, ends with
\* an exception (AttributeError) and hands back no analysis; a unit with
\* such a statement in the body of a nested definition only, where the
\* analyser does not walk, is analysed.
UnsupportedStatementFails ==
    call # NoCall =>
        IF HasUnsupported(unit.body)
        THEN raised = "AttributeError" /\ analysis = NoAnalysis
        ELSE raised = "none" /\ analysis # NoAnalysis

\* Witness of C24: a function whose body is a return and, after it, a
\* statement of an unsupported class has been handed to analyse_function,
\* which raised.
UnsupportedAfterReturn ==
    /\ call = "analyse_function"
    /\ unit.body = <<Simple("Return", NoExpr), Unsupported>>
    /\ raised = "AttributeError"
    /\ analysis = NoAnalysis

\* C25: once a call of an entry point of a CFAnalyser has returned an
\* analysis, a further call of an entry point fails, and the graph, which
\* the analysis holds, stays as it is.
OneAnalysisPerAnalyser ==
    [][Analysed => (raised' # "none" /\ analysis' = NoAnalysis /\ graph' = graph)]_vars

\* Number of objects made before the analyser of another run is.
MaxOthers == 2

\* A new CFAnalyser in a run in which k objects were made before it: the
\* CFNode objects it makes are other objects than those of a run in which
\* none was, the k-th object made being k.
OtherRun(k) ==
    Analyser(EmptyGraph, [n \in 1..k |-> [ast_node |-> NoRef, annotation |-> "<other>"]], <<>>)

\* The call of the entry point for the unit on the analyser a.
Run(a) ==
    CASE unit.kind = "FunctionDef" -> analyse_function(a, unit)
      [] unit.kind = "Module" -> analyse_module(a, unit)
      [] unit.kind = "ClassDef" -> analyse_class(a, unit)

\* The graph and analysis of the result r are those of the variables, with
\* node n + k for node n: the nodes, for each node its ast_node and
\* annotation and its edges by label, and the key nodes of the analysis by
\* name.
SameUpToNodes(r, k) ==
    /\ r.a.exc = raised
    /\ r.a.g.nodes = {n + k : n \in graph.nodes}
    /\ \A n \in graph.nodes :
          /\ r.a.cfnodes[n + k] = cfnodes[n]
          /\ DOMAIN r.a.g.edges[n + k] = DOMAIN graph.edges[n]
          /\ \A l \in DOMAIN graph.edges[n] : r.a.g.edges[n + k][l] = graph.edges[n][l] + k
          /\ r.a.g.backedges[n + k] = {<<e[1] + k, e[2]>> : e \in graph.backedges[n]}
    /\ r.analysis.kind = analysis.kind
    /\ analysis # NoAnalysis =>
          /\ DOMAIN r.analysis.key_nodes = DOMAIN analysis.key_nodes
          /\ \A name \in DOMAIN analysis.key_nodes :
                r.analysis.key_nodes[name] = analysis.key_nodes[name] + k

InHandlerOf(w, v) ==
    /\ Len(w.ref) = Len(v.ref) + 2
    /\ IsPrefix(v.ref, w.ref)
    /\ w.ref[Len(v.ref) + 1].field = "handlers"

\* C27: in the graph of an analysed function, for every try statement v
\* with handlers: the error edge of a statement of a handler's body or of
\* the else clause goes to where an exception leaving v goes (the finally
\* clause of v if it has one, else the handler or finally clause around v,
\* else <raise>) and to no handler of v; that of a statement of the body
\* goes to the first handler of v.
HandlersGuardBodyOnly ==
    Analysed =>
        \A v \in Walked :
            (v.statement.kind = "Try" /\ v.statement.handlers # <<>>) =>
                \A w \in Walked : \A n \in NodesOf(w.ref) :
                    ERROR \in DOMAIN EdgesOf(n) =>
                        /\ (InHandlerOf(w, v) \/ ChildOf(w, v, "orelse")) =>
                              /\ w.catch = v.out
                              /\ EdgesOf(n)[ERROR] \in CatchNodes(v.out)
                              /\ \A h \in 1..Len(v.statement.handlers) :
                                    EdgesOf(n)[ERROR] \notin HandlerNodes(v, h)
                        /\ ChildOf(w, v, "body") =>
                              EdgesOf(n)[ERROR] \in HandlerNodes(v, 1)

\* Witness of C27: a try statement with a handler and an else clause, in no
\* other try statement, has been analysed; a statement of its body has an
\* error edge to the handler, and a statement of the handler's body and one
\* of the else clause have an error edge to <raise>.
ErrorsInHandlerAndElse ==
    /\ Analysed
    /\ \E v \in Walked : \E b \in Walked, w \in Walked, e \in Walked :
          /\ v.statement.kind = "Try" /\ v.out = ToRaise
          /\ ChildOf(b, v, "body") /\ InHandlerOf(w, v) /\ ChildOf(e, v, "orelse")
          /\ EdgesOf(NodeAt(b.ref))[ERROR] \in HandlerNodes(v, 1)
          /\ ERROR \in DOMAIN EdgesOf(NodeAt(w.ref))
          /\ EdgesOf(NodeAt(w.ref))[ERROR] \in TerminalNodes("raise_node")
          /\ ERROR \in DOMAIN EdgesOf(NodeAt(e.ref))
          /\ EdgesOf(NodeAt(e.ref))[ERROR] \in TerminalNodes("raise_node")

\* C28: a call of _analyse_statements, whatever loops and try statements
\* the statements have and whether it returns or raises, leaves the context
\* as it was: the same labels with the same targets, the labels it had not
\* before absent again; and an entry point, called with an empty context,
\* leaves it empty, whether it returns or raises.
ContextScoped == [][context' = context]_vars

\* Witness of C28: a try statement with a statement of an unsupported class
\* in its body and a finally clause has been handed over in the body of a
\* loop; the call raised, and the context has the break and continue
\* targets of that loop and the three targets of the function, no more.
ContextAfterFailure ==
    /\ call = "_analyse_statements"
    /\ raised = "AttributeError"
    /\ \E i \in 1..Len(unit.body) :
          /\ unit.body[i].kind = "Try"
          /\ unit.body[i].body = <<Unsupported>>
          /\ unit.body[i].finalbody # <<>>
    /\ CtxHas(context, _BREAK) /\ CtxGet(context, _BREAK) = 1
    /\ CtxHas(context, _CONTINUE) /\ CtxGet(context, _CONTINUE) = 4
    /\ CtxHas(context, _RAISE) /\ CtxGet(context, _RAISE) = 2
    /\ Len(context) = 5

\* A placeholder made by _dummy_node: neither a statement nor an annotation.
IsDummy(n) == cfnodes[n].ast_node = NoRef /\ cfnodes[n].annotation = NoAnnotation

\* C29: in the graph of a returned analysis no node is a dummy placeholder,
\* each has a statement or an annotation; and the nodes without an outgoing
\* edge are exactly the terminals the analysis exposes: its leave, raise
\* and return nodes.
NoDummyAndOnlyTerminalsEnd ==
    Analysed =>
        /\ \A n \in graph.nodes : ~IsDummy(n)
        /\ {n \in graph.nodes : DOMAIN EdgesOf(n) = {}}
              = {GetAttr(analysis, name).node : name \in {t \in TerminalNames : Exposed(t)}}

\* Witness of C29: a function with a try statement that has a finally
\* clause has been analysed; the analyser made dummies, for the raise and
\* return targets of the context at least, none of which is in the graph;
\* and a terminal was removed while another is exposed.
DummiesGoneAfterTryFinally ==
    /\ Analysed
    /\ call = "analyse_function"
    /\ \E i \in 1..Len(unit.body) :
          unit.body[i].kind = "Try" /\ unit.body[i].finalbody # <<>>
    /\ Cardinality({n \in DOMAIN cfnodes : IsDummy(n)}) >= 2
    /\ \A n \in DOMAIN cfnodes : IsDummy(n) => n \notin graph.nodes
    /\ \E t \in TerminalNames : Exposed(t)
    /\ \E t \in TerminalNames : ~Exposed(t)

\* C30: a call of add_node that fails leaves the graph as it was: the same
\* nodes, the same forward edges and the same back-edges, the rejected node
\* not among the nodes.
FailedAddNodeUnchanged ==
    [][(call' = "add_node" /\ raised' # "none") => graph' = graph]_vars

====
